---------------------------- MODULE Spec2Model ----------------------------
(***************************************************************************)
(* Market-data ingestion pipeline (backend/src): the call-rate limiter,    *)
(* the thread-local remote session source, the tri-state collection        *)
(* statistics and the concurrent fundamentals orchestrator.                *)
(***************************************************************************)
EXTENDS Integers, Sequences, FiniteSets, TLC

(***************************************************************************)
(* Bounds of the model.                                                    *)
(***************************************************************************)
NumThreads == 2
MaxThreshold == 2
MaxCalls == 4
MaxResets == 1
MaxResults == 5
MaxExecTime == 1
MaxOps == 4
MaxStocks == 2
MaxBatchSize == 2
MaxWorkers == 2
MaxPrice == 129
MaxBars == 3
MaxDate == 3
MaxTime == 2
MaxBatch == 2
MaxRecords == 3

Threads == 1..NumThreads

\* The worker threads that call into the session source.
SrcThreads == {1, 2}

\* float('inf'): a calls_per_period no counter reaches.
Inf == 1000000

VARIABLES
    limiter,        \* ApiRateLimiter: enabled, unlimited, calls_per_period, call_count, lock
    lpc,            \* per thread: position inside wait_if_needed / _sleep_with_retry
    should_sleep,   \* per thread: the local should_sleep of wait_if_needed
    wcall,          \* history, per thread: its current (or last) wait_if_needed call
    hist,           \* history of the limiter: calls entered, sleeps started, resets
    stats,          \* ThreadSafeStatistics, with its CollectionStatistics
    statsHist,      \* history: the last result given to add_result, whether an Error was
    connected,      \* per thread: the thread-local _local.connected ("unset" before first use)
    pc,             \* per thread: position inside a ThreadSafeBaostockSource method
    frame,          \* per thread: locals of the method in progress and its return value
    srcHist,        \* history, per thread: last remote call, limiter consulted, queries made
    srcGlobal,      \* history: the thread that made the last source step, calls made
    clock,          \* datetime.now(): year and month of the run
    orch,           \* execute_sync: position, options, fundamentals_data, batch_count
    batches,        \* per batch: the _process_batch_concurrent task and its worker sessions
    task,           \* per stock: the _collect_fundamentals_concurrent task and its queries
    sink,           \* stocks written to the CSV file and the database, by which write
    fetched,        \* history: the get_stock_fundamentals call that returned in the last step
    raw,            \* the raw bars of one security, in the order they were supplied
    recon,          \* the reconciler: which routine ran last and the list it returned
    calc,           \* calculate_change_rate_with_details: its arguments and its return value
    gate,           \* DailyKlineAnomalyDetector: self.anomalies and the last call's result
    scan,           \* _scan_all_files: the file being read and the records emitted
    pytdx,          \* PytdxSource.get_daily_data: the files of one code, market by market
    csv,            \* CsvWriter: the write session, the files on disk, each writer's position
    seqfm,          \* FundamentalsManager.execute_sync: position, batch and statistics
    exec            \* TaskExecutor.execute_task: the task, its status and its attempts

limiterVars == <<limiter, lpc, should_sleep, wcall, hist>>
statsVars == <<stats, statsHist>>
sourceVars == <<connected, pc, frame, srcHist, srcGlobal, clock>>
orchVars == <<orch, batches, task, sink, fetched>>
pipeVars == <<raw, recon, calc, gate>>
auxVars == <<scan, pytdx, csv, seqfm, exec>>

vars == <<limiter, lpc, should_sleep, wcall, hist, stats, statsHist,
          connected, pc, frame, srcHist, srcGlobal, clock,
          orch, batches, task, sink, fetched, raw, recon, calc, gate,
          scan, pytdx, csv, seqfm, exec>>

(***************************************************************************)
(* ApiRateLimiter (utils/api_rate_limiter.py)                              *)
(***************************************************************************)

\* __init__: calls_per_period <= 0 means unlimited.
ApiRateLimiterInit(cpp, en) ==
    [ enabled          |-> en,
      unlimited        |-> (cpp = 0 \/ cpp < 0),
      calls_per_period |-> IF cpp = 0 \/ cpp < 0 THEN Inf ELSE cpp,
      call_count       |-> 0,
      lock             |-> 0 ]

SleepStates == {"sleep1", "backoff", "sleep2"}

InCall(t) == lpc[t] \notin {"idle", "returned", "raised"}

NoCall == [idx |-> 0, sleeps |-> 0, episodes |-> 0, fails |-> 0, sleepAt |-> 0]

\* Entry of wait_if_needed on thread t (the call itself, made by a client).
\* The history is kept for the calls a client of the limiter makes directly.
StartWait(t, tracked) ==
    /\ lpc[t] = "idle"
    /\ lpc' = [lpc EXCEPT ![t] = "call"]
    /\ IF tracked
          THEN /\ wcall' = [wcall EXCEPT ![t] = [NoCall EXCEPT !.idx = hist.calls + 1]]
               /\ hist' = [hist EXCEPT !.calls = @ + 1,
                                       !.overlapped = @ \/ \E u \in Threads : InCall(u)]
          ELSE /\ wcall' = [wcall EXCEPT ![t] = NoCall]
               /\ hist' = hist

Tracked(t) == wcall[t].idx # 0

\* lines 61-67: the two early returns.
WaitCheck(t) ==
    /\ lpc[t] = "call"
    /\ lpc' = [lpc EXCEPT ![t] =
                 IF ~limiter.enabled \/ limiter.unlimited THEN "returned" ELSE "acquire"]
    /\ UNCHANGED <<limiter, should_sleep, wcall, hist>>
    /\ UNCHANGED <<statsVars, sourceVars, orchVars, pipeVars, auxVars>>

\* line 69: with self.lock (entry).
WaitAcquire(t) ==
    /\ lpc[t] = "acquire"
    /\ limiter.lock = 0
    /\ limiter' = [limiter EXCEPT !.lock = t]
    /\ lpc' = [lpc EXCEPT ![t] = "update"]
    /\ UNCHANGED <<should_sleep, wcall, hist>>
    /\ UNCHANGED <<statsVars, sourceVars, orchVars, pipeVars, auxVars>>

\* The threshold test off by one: sleeps once the count exceeds the threshold.
LockedUpdate_Exceeds(count, threshold) ==
    IF count + 1 > threshold
       THEN [call_count |-> 0, should_sleep |-> TRUE]
       ELSE [call_count |-> count + 1, should_sleep |-> FALSE]

\* The threshold test without the reset of the counter.
LockedUpdate_NoReset(count, threshold) ==
    IF count + 1 >= threshold
       THEN [call_count |-> count + 1, should_sleep |-> TRUE]
       ELSE [call_count |-> count + 1, should_sleep |-> FALSE]

\* lines 70-77: increment, threshold check, reset.
LockedUpdate(count, threshold) ==
    IF count + 1 >= threshold
       THEN [call_count |-> 0, should_sleep |-> TRUE]
       ELSE [call_count |-> count + 1, should_sleep |-> FALSE]

WaitUpdate(t) ==
    /\ lpc[t] = "update"
    /\ LET u == LockedUpdate(limiter.call_count, limiter.calls_per_period)
       IN /\ limiter' = [limiter EXCEPT !.call_count = u.call_count]
          /\ should_sleep' = [should_sleep EXCEPT ![t] = u.should_sleep]
    /\ lpc' = [lpc EXCEPT ![t] = "release"]
    /\ UNCHANGED <<wcall, hist>>
    /\ UNCHANGED <<statsVars, sourceVars, orchVars, pipeVars, auxVars>>

\* _sleep_with_retry is entered: the first time.sleep(sleep_duration) begins.
BeginSleep(t) ==
    /\ lpc' = [lpc EXCEPT ![t] = "sleep1"]
    /\ IF Tracked(t)
          THEN /\ wcall' = [wcall EXCEPT ![t].sleeps = @ + 1, ![t].episodes = @ + 1,
                                         ![t].sleepAt = hist.calls]
               /\ hist' = [hist EXCEPT !.episodes = @ + 1]
          ELSE UNCHANGED <<wcall, hist>>

\* The sleep moved inside the with block: it begins with the lock still held.
WaitRelease_SleepInLock(t) ==
    /\ lpc[t] = "release"
    /\ IF should_sleep[t]
          THEN /\ BeginSleep(t)
               /\ limiter' = limiter
          ELSE /\ lpc' = [lpc EXCEPT ![t] = "returned"]
               /\ limiter' = [limiter EXCEPT !.lock = 0]
               /\ UNCHANGED <<wcall, hist>>
    /\ UNCHANGED should_sleep
    /\ UNCHANGED <<statsVars, sourceVars, orchVars, pipeVars, auxVars>>

\* lines 69, 80-81: leaving the with block releases the lock; then
\* _sleep_with_retry is entered when should_sleep, else the call returns.
WaitRelease(t) ==
    /\ lpc[t] = "release"
    /\ limiter' = [limiter EXCEPT !.lock = 0]
    /\ IF should_sleep[t]
          THEN BeginSleep(t)
          ELSE /\ lpc' = [lpc EXCEPT ![t] = "returned"]
               /\ UNCHANGED <<wcall, hist>>
    /\ UNCHANGED should_sleep
    /\ UNCHANGED <<statsVars, sourceVars, orchVars, pipeVars, auxVars>>

\* lines 85-87: the first time.sleep(sleep_duration) ends, normally or with
\* OSError/ValueError.
Sleep1Done(t) ==
    /\ lpc[t] = "sleep1"
    /\ \E ok \in BOOLEAN :
          IF ok
             THEN /\ lpc' = [lpc EXCEPT ![t] = "returned"]
                  /\ wcall' = wcall
             ELSE /\ lpc' = [lpc EXCEPT ![t] = "backoff"]
                  /\ wcall' = [wcall EXCEPT ![t].fails = IF Tracked(t) THEN @ + 1 ELSE @]
    /\ UNCHANGED <<limiter, should_sleep, hist>>
    /\ UNCHANGED <<statsVars, sourceVars, orchVars, pipeVars, auxVars>>

\* line 89: time.sleep(0.1) inside the except handler: its own failure is
\* not caught and leaves wait_if_needed as an exception.
BackoffDone(t) ==
    /\ lpc[t] = "backoff"
    /\ \E ok \in BOOLEAN :
          IF ok
             THEN /\ lpc' = [lpc EXCEPT ![t] = "sleep2"]
                  /\ wcall' = [wcall EXCEPT ![t].sleeps = IF Tracked(t) THEN @ + 1 ELSE @]
             ELSE /\ lpc' = [lpc EXCEPT ![t] = "raised"]
                  /\ wcall' = [wcall EXCEPT ![t].fails = IF Tracked(t) THEN @ + 1 ELSE @]
    /\ UNCHANGED <<limiter, should_sleep, hist>>
    /\ UNCHANGED <<statsVars, sourceVars, orchVars, pipeVars, auxVars>>

\* lines 90-94: the retried sleep; a second failure is swallowed.
Sleep2Done(t) ==
    /\ lpc[t] = "sleep2"
    /\ \E ok \in BOOLEAN :
          /\ lpc' = [lpc EXCEPT ![t] = "returned"]
          /\ wcall' = [wcall EXCEPT ![t].fails = IF ok \/ ~Tracked(t) THEN @ ELSE @ + 1]
    /\ UNCHANGED <<limiter, should_sleep, hist>>
    /\ UNCHANGED <<statsVars, sourceVars, orchVars, pipeVars, auxVars>>

\* lines 96-99: reset().
Reset(t) ==
    /\ lpc[t] = "idle"
    /\ limiter.lock = 0
    /\ hist.resets < MaxResets
    /\ limiter' = [limiter EXCEPT !.call_count = 0]
    /\ hist' = [hist EXCEPT !.resets = @ + 1]
    /\ UNCHANGED <<lpc, should_sleep, wcall>>
    /\ UNCHANGED <<statsVars, sourceVars, orchVars, pipeVars, auxVars>>

\* A client thread calls wait_if_needed.
CallWait(t) ==
    /\ hist.calls < MaxCalls
    /\ StartWait(t, TRUE)
    /\ UNCHANGED <<limiter, should_sleep>>
    /\ UNCHANGED <<statsVars, sourceVars, orchVars, pipeVars, auxVars>>

\* wait_if_needed has returned (or raised) to the client.
WaitReturn(t) ==
    /\ lpc[t] \in {"returned", "raised"}
    /\ lpc' = [lpc EXCEPT ![t] = "idle"]
    /\ wcall' = [wcall EXCEPT ![t] = NoCall]
    /\ UNCHANGED <<limiter, should_sleep, hist>>
    /\ UNCHANGED <<statsVars, sourceVars, orchVars, pipeVars, auxVars>>

InitLimiterPart ==
    /\ \E cpp \in 0..MaxThreshold, en \in BOOLEAN :
          limiter = ApiRateLimiterInit(cpp, en)
    /\ lpc = [t \in Threads |-> "idle"]
    /\ should_sleep = [t \in Threads |-> FALSE]
    /\ wcall = [t \in Threads |-> NoCall]
    /\ hist = [calls |-> 0, episodes |-> 0, resets |-> 0, overlapped |-> FALSE]

(***************************************************************************)
(* CollectionResult / CollectionStatistics (models/collection_result.py)   *)
(* ThreadSafeStatistics (utils/thread_safe_statistics.py)                  *)
(***************************************************************************)

\* execution_time is Optional[float]: None, 0.0 or a positive time.
NoneTime == 0 - 1
ExecTimes == NoneTime..MaxExecTime
Statuses == {"success", "no_data", "error"}

\* CollectionResult.__init__ and the three factory methods.
CollectionResult(status, execution_time) ==
    [status |-> status, execution_time |-> execution_time]

\* Python truthiness of an Optional[float].
Truthy(x) == x # NoneTime /\ x # 0

\* CollectionStatistics.__init__
CollectionStatisticsInit ==
    [ total |-> 0, success_count |-> 0, no_data_count |-> 0, error_count |-> 0,
      total_execution_time |-> 0 ]

\* Two-state classification: whatever is not a success counts as an error.
CollectionStatistics_add_result_binary(cs, result) ==
    [ total                |-> cs.total + 1,
      total_execution_time |-> cs.total_execution_time +
                                 (IF Truthy(result.execution_time)
                                     THEN result.execution_time ELSE 0),
      success_count        |-> cs.success_count +
                                 (IF result.status = "success" THEN 1 ELSE 0),
      no_data_count        |-> cs.no_data_count,
      error_count          |-> cs.error_count +
                                 (IF result.status # "success" THEN 1 ELSE 0) ]

\* CollectionStatistics.add_result
CollectionStatistics_add_result(cs, result) ==
    [ total                |-> cs.total + 1,
      total_execution_time |-> cs.total_execution_time +
                                 (IF Truthy(result.execution_time)
                                     THEN result.execution_time ELSE 0),
      success_count        |-> cs.success_count +
                                 (IF result.status = "success" THEN 1 ELSE 0),
      no_data_count        |-> cs.no_data_count +
                                 (IF result.status # "success" /\ result.status = "no_data"
                                     THEN 1 ELSE 0),
      error_count          |-> cs.error_count +
                                 (IF result.status # "success" /\ result.status # "no_data"
                                     THEN 1 ELSE 0) ]

\* The three rates are floats n / total; they are kept as exact fractions
\* <<numerator, denominator>>, 0.0 being <<0, 1>>.
completion_rate(cs) ==
    IF cs.total = 0 THEN <<0, 1>> ELSE <<cs.success_count + cs.no_data_count, cs.total>>

real_success_rate(cs) ==
    IF cs.total = 0 THEN <<0, 1>> ELSE <<cs.success_count, cs.total>>

error_rate(cs) ==
    IF cs.total = 0 THEN <<0, 1>> ELSE <<cs.error_count, cs.total>>

RateLess(a, b) == a[1] * b[2] < b[1] * a[2]
RateEq(a, b) == a[1] * b[2] = b[1] * a[2]

\* ThreadSafeStatistics.__init__
ThreadSafeStatisticsInit ==
    [ total_stocks |-> 0, successful |-> 0, failed |-> 0, no_data |-> 0,
      error_count |-> 0, batch_count |-> 0,
      baostock_calls |-> 0, csv_batches |-> 0, db_batches |-> 0,
      finished |-> FALSE,
      collection_stats |-> CollectionStatisticsInit ]

\* ThreadSafeStatistics.add_result (the whole body runs under self.lock).
ThreadSafeStatistics_add_result(st, result) ==
    LET timed == Truthy(result.execution_time)
    IN [ st EXCEPT
           !.total_stocks = @ + 1,
           !.successful = IF timed /\ result.status = "success" THEN @ + 1 ELSE @,
           !.no_data = IF timed /\ result.status = "no_data" THEN @ + 1 ELSE @,
           !.error_count = IF timed /\ result.status = "error" THEN @ + 1 ELSE @,
           !.failed = IF timed /\ result.status = "error" THEN @ + 1 ELSE @,
           !.baostock_calls = IF timed THEN @ + 1 ELSE @,
           !.collection_stats = CollectionStatistics_add_result(@, result) ]

\* ThreadSafeStatistics.get_progress_info: (current, total).
get_progress_info(st) ==
    <<st.successful + st.no_data + st.error_count, st.total_stocks>>

InitStatsPart ==
    /\ stats = ThreadSafeStatisticsInit
    /\ statsHist = [last |-> CollectionResult("none", NoneTime), errAdded |-> FALSE]

\* Some thread calls stats.add_result(result).
AddResult ==
    /\ stats.collection_stats.total < MaxResults
    /\ \E status \in Statuses, time \in ExecTimes :
          LET result == CollectionResult(status, time)
          IN /\ stats' = ThreadSafeStatistics_add_result(stats, result)
             /\ statsHist' = [last |-> result,
                              errAdded |-> statsHist.errAdded \/ status = "error"]
    /\ UNCHANGED <<limiterVars, sourceVars, orchVars, pipeVars, auxVars>>

(***************************************************************************)
(* ThreadSafeBaostockSource (data_sources/thread_safe_baostock.py)         *)
(***************************************************************************)

LoginOutcomes == {"ok", "fail", "raise"}        \* error_code '0', another code, exception
LogoutOutcomes == {"ok", "raise"}
QueryOutcomes == {"data", "empty", "errcode", "raise"}
Years == {2025}
Months == {1, 4, 8, 12}

NoFrame == [ op |-> "none", seq |-> << >>, i |-> 0, year |-> 0, quarter |-> 0,
             fd |-> "none", ret |-> "none" ]

NoSrcHist ==
    [ last |-> [kind |-> "none", conn |-> "unset", limited |-> FALSE] ]

\* History: thread-local record after a remote call of the given kind, issued
\* while the thread's own session flag was conn.
AfterRemote(h, kind, conn, limited) ==
    [h EXCEPT !.last = [kind |-> kind, conn |-> conn, limited |-> limited]]

\* The session flag kept in one attribute shared by all threads.
local_connected_shared(t) == connected[1]

\* self._local.connected: the calling thread's own slot of threading.local().
local_connected(t) == connected[t]

\* _ensure_connection, given the flag it reads and what bs.login() does:
\* the new flag, the returned bool and whether bs.login() was called.
ensure_connection(c, loginOut) ==
    IF c = "unset" \/ c # "true"
       THEN CASE loginOut = "ok"    -> [connected |-> "true", ok |-> TRUE, login |-> TRUE]
              [] loginOut = "fail"  -> [connected |-> "false", ok |-> FALSE, login |-> TRUE]
              [] loginOut = "raise" -> [connected |-> c, ok |-> FALSE, login |-> TRUE]
       ELSE [connected |-> c, ok |-> TRUE, login |-> FALSE]

\* disconnect, given the flag it reads and what bs.logout() does.
disconnect(c, logoutOut) ==
    IF c # "unset" /\ c = "true"
       THEN [connected |-> IF logoutOut = "ok" THEN "false" ELSE c, logout |-> TRUE]
       ELSE [connected |-> c, logout |-> FALSE]

\* get_financial_data lines 165-192: what it returns for each behaviour of
\* bs.query_profit_data (a record, an empty result set, a non-zero
\* error_code, an exception).
financial_data_of(out) == IF out = "data" THEN "data" ELSE "none"

\* lines 216-217
current_quarter(month) == (month - 1) \div 3 + 1

\* lines 211-233 and the [:2] of line 237.  year/quarter 0 stand for None.
query_sequence(year, quarter, now) ==
    IF year # 0 /\ quarter # 0
       THEN << [year |-> year, quarter |-> quarter] >>
       ELSE LET cy == now.year
                cq == current_quarter(now.month)
                first == IF cq > 1 THEN [year |-> cy, quarter |-> cq - 1]
                                   ELSE [year |-> cy - 1, quarter |-> 4]
                second == IF cq > 2 THEN [year |-> cy, quarter |-> cq - 2]
                          ELSE IF cq > 1 THEN [year |-> cy - 1, quarter |-> 4]
                          ELSE [year |-> cy - 1, quarter |-> 3]
            IN SubSeq(<<first, second>>, 1, 2)

SourceStep(t) ==
    /\ srcGlobal' = [srcGlobal EXCEPT !.actor = t]
    /\ clock' = clock

SourceCall(t) ==
    /\ pc[t] = "idle"
    /\ lpc[t] = "idle"
    /\ srcGlobal.ops < MaxOps
    /\ srcGlobal' = [actor |-> t, ops |-> srcGlobal.ops + 1]
    /\ clock' = clock

\* __enter__: _ensure_connection, result ignored.
Enter(t) ==
    /\ SourceCall(t)
    /\ \E loginOut \in LoginOutcomes :
          LET e == ensure_connection(local_connected(t), loginOut)
          IN /\ connected' = [connected EXCEPT ![t] = e.connected]
             /\ srcHist' = [srcHist EXCEPT ![t] =
                   IF e.login THEN AfterRemote(@, "login", connected[t], lpc[t] = "returned")
                              ELSE @]
    /\ frame' = [frame EXCEPT ![t] = [NoFrame EXCEPT !.op = "enter"]]
    /\ pc' = [pc EXCEPT ![t] = "ret"]
    /\ UNCHANGED <<limiterVars, statsVars, orchVars, pipeVars, auxVars>>

\* disconnect()
Disconnect(t) ==
    /\ SourceCall(t)
    /\ \E logoutOut \in LogoutOutcomes :
          LET d == disconnect(local_connected(t), logoutOut)
          IN /\ connected' = [connected EXCEPT ![t] = d.connected]
             /\ srcHist' = [srcHist EXCEPT ![t] =
                   IF d.logout THEN AfterRemote(@, "logout", connected[t], lpc[t] = "returned")
                               ELSE @]
    /\ frame' = [frame EXCEPT ![t] = [NoFrame EXCEPT !.op = "disconnect"]]
    /\ pc' = [pc EXCEPT ![t] = "ret"]
    /\ UNCHANGED <<limiterVars, statsVars, orchVars, pipeVars, auxVars>>

\* __exit__: disconnects only when the with block raised.
Exit(t) ==
    /\ SourceCall(t)
    /\ \E exc \in BOOLEAN, logoutOut \in LogoutOutcomes :
          LET d == IF exc THEN disconnect(local_connected(t), logoutOut)
                          ELSE [connected |-> connected[t], logout |-> FALSE]
          IN /\ connected' = [connected EXCEPT ![t] = d.connected]
             /\ srcHist' = [srcHist EXCEPT ![t] =
                   IF d.logout THEN AfterRemote(@, "logout", connected[t], lpc[t] = "returned")
                               ELSE @]
    /\ frame' = [frame EXCEPT ![t] = [NoFrame EXCEPT !.op = "exit"]]
    /\ pc' = [pc EXCEPT ![t] = "ret"]
    /\ UNCHANGED <<limiterVars, statsVars, orchVars, pipeVars, auxVars>>

\* get_financial_data returns fd to its caller: the loop of
\* get_stock_fundamentals (lines 240-243) or the client.
GfdReturn(t, fd) ==
    IF frame[t].op = "gsf"
       THEN /\ pc' = [pc EXCEPT ![t] = "gsf_loop"]
            /\ frame' = [frame EXCEPT ![t].fd = fd, ![t].i = @ + 1]
       ELSE /\ pc' = [pc EXCEPT ![t] = "ret"]
            /\ frame' = [frame EXCEPT ![t].fd = fd, ![t].ret = fd]

\* The rate limiter is not consulted: the query follows the connection check.
GfdBegin_NoLimiter(t) ==
    /\ pc[t] = "gfd_begin"
    /\ lpc[t] = "idle"
    /\ SourceStep(t)
    /\ \E loginOut \in LoginOutcomes :
          LET e == ensure_connection(local_connected(t), loginOut)
          IN /\ connected' = [connected EXCEPT ![t] = e.connected]
             /\ srcHist' = [srcHist EXCEPT ![t] =
                   IF e.login THEN AfterRemote(@, "login", connected[t], lpc[t] = "returned")
                              ELSE @]
             /\ IF e.ok
                   THEN /\ pc' = [pc EXCEPT ![t] = "gfd_query"]
                        /\ frame' = frame
                   ELSE GfdReturn(t, "none")
             /\ UNCHANGED <<lpc, wcall, hist>>
    /\ UNCHANGED <<limiter, should_sleep, statsVars, orchVars, pipeVars, auxVars>>

\* get_financial_data lines 156-162: _ensure_connection, then wait_if_needed
\* is called.
GfdBegin(t) ==
    /\ pc[t] = "gfd_begin"
    /\ lpc[t] = "idle"
    /\ SourceStep(t)
    /\ \E loginOut \in LoginOutcomes :
          LET e == ensure_connection(local_connected(t), loginOut)
          IN /\ connected' = [connected EXCEPT ![t] = e.connected]
             /\ srcHist' = [srcHist EXCEPT ![t] =
                   IF e.login THEN AfterRemote(@, "login", connected[t], lpc[t] = "returned")
                              ELSE @]
             /\ IF e.ok
                   THEN /\ pc' = [pc EXCEPT ![t] = "gfd_query"]
                        /\ frame' = frame
                        /\ StartWait(t, FALSE)
                   ELSE /\ GfdReturn(t, "none")
                        /\ UNCHANGED <<lpc, wcall, hist>>
    /\ UNCHANGED <<limiter, should_sleep, statsVars, orchVars, pipeVars, auxVars>>

\* get_financial_data lines 165-192: wait_if_needed is over; if it raised,
\* None is returned, else bs.query_profit_data is called.
GfdQuery(t) ==
    /\ pc[t] = "gfd_query"
    /\ ~InCall(t)
    /\ SourceStep(t)
    /\ lpc' = [lpc EXCEPT ![t] = "idle"]
    /\ wcall' = [wcall EXCEPT ![t] = NoCall]
    /\ IF lpc[t] = "raised"
          THEN /\ GfdReturn(t, "none")
               /\ srcHist' = srcHist
          ELSE \E out \in QueryOutcomes :
                  /\ GfdReturn(t, financial_data_of(out))
                  /\ srcHist' = [srcHist EXCEPT ![t] =
                        AfterRemote(@, "query_profit_data", connected[t],
                                    lpc[t] = "returned")]
    /\ UNCHANGED <<connected, limiter, should_sleep, hist, statsVars, orchVars, pipeVars, auxVars>>

\* A client calls get_financial_data(code, year, quarter).
GfdCall(t) ==
    /\ SourceCall(t)
    /\ \E y \in Years, qt \in {4} :
          frame' = [frame EXCEPT ![t] =
                      [NoFrame EXCEPT !.op = "gfd", !.year = y, !.quarter = qt,
                                      !.ret = "pending"]]
    /\ pc' = [pc EXCEPT ![t] = "gfd_begin"]
    /\ UNCHANGED <<connected, srcHist, limiterVars, statsVars, orchVars, pipeVars, auxVars>>

\* get_stock_fundamentals lines 206-233: _ensure_connection, then the query
\* sequence is built.
GsfCall(t) ==
    /\ SourceCall(t)
    /\ \E loginOut \in LoginOutcomes, year \in {0} \cup Years, quarter \in {0, 3} :
          LET e == ensure_connection(local_connected(t), loginOut)
              now == clock
          IN /\ connected' = [connected EXCEPT ![t] = e.connected]
             /\ srcHist' = [srcHist EXCEPT ![t] =
                   IF e.login THEN AfterRemote(@, "login", connected[t], lpc[t] = "returned")
                              ELSE @]
             /\ IF e.ok
                   THEN /\ pc' = [pc EXCEPT ![t] = "gsf_loop"]
                        /\ frame' = [frame EXCEPT ![t] =
                              [NoFrame EXCEPT !.op = "gsf", !.i = 1, !.ret = "pending",
                                              !.seq = query_sequence(year, quarter, now)]]
                   ELSE /\ pc' = [pc EXCEPT ![t] = "ret"]
                        /\ frame' = [frame EXCEPT ![t] = [NoFrame EXCEPT !.op = "gsf"]]
    /\ UNCHANGED <<limiterVars, statsVars, orchVars, pipeVars, auxVars>>

\* get_stock_fundamentals lines 236-264: the loop over the query sequence
\* (next call of get_financial_data, or break / exhaustion and return).
GsfLoop(t) ==
    /\ pc[t] = "gsf_loop"
    /\ lpc[t] = "idle"
    /\ SourceStep(t)
    /\ IF frame[t].fd = "data" \/ frame[t].i > Len(frame[t].seq)
          THEN /\ pc' = [pc EXCEPT ![t] = "ret"]
               /\ frame' = [frame EXCEPT ![t].ret = frame[t].fd]
          ELSE /\ pc' = [pc EXCEPT ![t] = "gfd_begin"]
               /\ frame' = [frame EXCEPT ![t].year = frame[t].seq[frame[t].i].year,
                                         ![t].quarter = frame[t].seq[frame[t].i].quarter]
    /\ UNCHANGED <<connected, srcHist, limiterVars, statsVars, orchVars, pipeVars, auxVars>>

\* get_stock_list lines 89-95: _ensure_connection, then wait_if_needed.
GslCall(t) ==
    /\ SourceCall(t)
    /\ \E loginOut \in LoginOutcomes :
          LET e == ensure_connection(local_connected(t), loginOut)
          IN /\ connected' = [connected EXCEPT ![t] = e.connected]
             /\ srcHist' = [srcHist EXCEPT ![t] =
                   IF e.login THEN AfterRemote(@, "login", connected[t], lpc[t] = "returned")
                              ELSE @]
             /\ IF e.ok
                   THEN /\ pc' = [pc EXCEPT ![t] = "gsl_query"]
                        /\ frame' = [frame EXCEPT ![t] =
                              [NoFrame EXCEPT !.op = "gsl", !.ret = "pending"]]
                        /\ StartWait(t, FALSE)
                   ELSE /\ pc' = [pc EXCEPT ![t] = "ret"]
                        /\ frame' = [frame EXCEPT ![t] = [NoFrame EXCEPT !.op = "gsl"]]
                        /\ UNCHANGED <<lpc, wcall, hist>>
    /\ UNCHANGED <<limiter, should_sleep, statsVars, orchVars, pipeVars, auxVars>>

\* get_stock_list lines 98-152: bs.query_stock_basic and the returned list.
GslQuery(t) ==
    /\ pc[t] = "gsl_query"
    /\ ~InCall(t)
    /\ SourceStep(t)
    /\ lpc' = [lpc EXCEPT ![t] = "idle"]
    /\ wcall' = [wcall EXCEPT ![t] = NoCall]
    /\ pc' = [pc EXCEPT ![t] = "ret"]
    /\ IF lpc[t] = "raised"
          THEN /\ frame' = [frame EXCEPT ![t].ret = "none"]
               /\ srcHist' = srcHist
          ELSE \E out \in QueryOutcomes :
                  /\ frame' = [frame EXCEPT ![t].ret = IF out = "data" THEN "data" ELSE "none"]
                  /\ srcHist' = [srcHist EXCEPT ![t] =
                        AfterRemote(@, "query_stock_basic", connected[t],
                                    lpc[t] = "returned")]
    /\ UNCHANGED <<connected, limiter, should_sleep, hist, statsVars, orchVars, pipeVars, auxVars>>

\* The method has returned to its caller; the caller takes the result.
SrcReturn(t) ==
    /\ pc[t] = "ret"
    /\ SourceStep(t)
    /\ pc' = [pc EXCEPT ![t] = "idle"]
    /\ frame' = [frame EXCEPT ![t] = NoFrame]
    /\ srcHist' = [srcHist EXCEPT ![t] = NoSrcHist]
    /\ UNCHANGED <<connected, limiterVars, statsVars, orchVars, pipeVars, auxVars>>

(***************************************************************************)
(* ConcurrentFundamentalsManager (sync/concurrent_fundamentals_manager.py) *)
(***************************************************************************)

Min(a, b) == IF a < b THEN a ELSE b

SinkOutcomes == {"ok", "csv_raise", "db_raise"}

\* range(0, len(stocks), batch_size): the number of batches submitted.
NumBatches(n, batch_size) == (n + batch_size - 1) \div batch_size

\* stocks[i:i + batch_size] of the b-th submitted batch; stocks are 1..n in
\* the order of the stock list.
BatchOf(b, n, batch_size) ==
    { s \in 1..n : (s - 1) \div batch_size + 1 = b }

\* The worker threads of a batch's inner pool: min(10, len(stock_batch)).
Slots(b) == 1..Min(10, Cardinality(BatchOf(b, orch.n, orch.batch_size)))

NoTask ==
    [ pc |-> "pending", slot |-> 0, seq |-> << >>, i |-> 0, log |-> << >>,
      status |-> "none", results |-> 0 ]

NewBatch ==
    [ state |-> "queued", batch_data |-> {}, flush |-> "none",
      sess |-> << >> ]

NoFetch == [ stock |-> 0, log |-> << >>, status |-> "none" ]

NoSink == [ csv |-> {}, db |-> {}, finalCsv |-> {}, finalDb |-> {} ]

InitOrchPart ==
    /\ orch = [ pc |-> "init", n |-> 0, batch_size |-> 0, dry_run |-> FALSE,
                max_workers |-> 0, fundamentals_data |-> {}, batch_count |-> 0,
                error |-> FALSE ]
    /\ batches = << >>
    /\ task = << >>
    /\ sink = NoSink
    /\ fetched = NoFetch

\* Variables no step of the orchestrator changes.
OrchFrame ==
    UNCHANGED <<lpc, should_sleep, wcall, hist, statsHist, connected, pc,
                frame, srcHist, srcGlobal, clock, pipeVars, auxVars>>

\* _collect_fundamentals_concurrent lines 221-228: the CollectionResult made
\* from what get_stock_fundamentals returned.
result_of(fundamentals) == IF fundamentals = "data" THEN "success" ELSE "no_data"

\* execute_sync lines 62-93: the options, the stock list and the submission
\* of one _process_batch_concurrent task per batch.  A failing stock query,
\* a zero batch_size (range() step) or a non-positive max_workers
\* (ThreadPoolExecutor) raises into the handler of lines 121-126.
Start ==
    /\ orch.pc = "init"
    /\ \E n \in 0..MaxStocks, batch_size \in 0..MaxBatchSize,
          max_workers \in 0..MaxWorkers, dry_run \in BOOLEAN,
          listOut \in {"ok", "raise"} :
          LET opts == [orch EXCEPT !.batch_size = batch_size,
                                   !.dry_run = dry_run,
                                   !.max_workers = max_workers]
          IN IF listOut = "raise"
                THEN /\ orch' = [opts EXCEPT !.pc = "done", !.error = TRUE]
                     /\ stats' = [stats EXCEPT !.finished = TRUE]
                     /\ UNCHANGED <<batches, task>>
             ELSE IF n = 0
                THEN /\ orch' = [opts EXCEPT !.pc = "done"]
                     /\ stats' = [stats EXCEPT !.total_stocks = 0, !.finished = TRUE]
                     /\ UNCHANGED <<batches, task>>
             ELSE IF max_workers = 0 \/ batch_size = 0
                THEN /\ orch' = [opts EXCEPT !.pc = "done", !.n = n, !.error = TRUE]
                     /\ stats' = [stats EXCEPT !.total_stocks = n, !.finished = TRUE]
                     /\ UNCHANGED <<batches, task>>
             ELSE /\ orch' = [opts EXCEPT !.pc = "running", !.n = n]
                  /\ stats' = [stats EXCEPT !.total_stocks = n]
                  /\ batches' = [b \in 1..NumBatches(n, batch_size) |-> NewBatch]
                  /\ task' = [s \in 1..n |-> NoTask]
    /\ fetched' = NoFetch
    /\ UNCHANGED <<limiter, sink>>
    /\ OrchFrame

\* A worker of the outer pool takes the next queued batch task (submission
\* order) and _process_batch_concurrent submits its stocks to a new inner
\* pool (lines 158-168).
BatchStart(b) ==
    /\ orch.pc = "running"
    /\ b \in DOMAIN batches
    /\ batches[b].state = "queued"
    /\ \A c \in DOMAIN batches : c < b => batches[c].state # "queued"
    /\ Cardinality({c \in DOMAIN batches : batches[c].state = "running"})
          < orch.max_workers
    /\ batches' = [batches EXCEPT ![b].state = "running",
                                  ![b].sess = [k \in Slots(b) |-> "unset"]]
    /\ fetched' = NoFetch
    /\ UNCHANGED <<orch, task, sink, limiter, stats>>
    /\ OrchFrame

BatchIdx(s) == (s - 1) \div orch.batch_size + 1

\* The inner-pool threads of batch b that are running a task.
BusySlots(b) ==
    { task[u].slot : u \in { v \in BatchOf(b, orch.n, orch.batch_size) :
                                task[v].pc = "query" } }

\* wait_if_needed as one step: the early returns of lines 62-67, else the
\* locked update of lines 69-77.
wait_outcome(lim) ==
    IF ~lim.enabled \/ lim.unlimited
       THEN [call_count |-> lim.call_count, should_sleep |-> FALSE]
       ELSE LockedUpdate(lim.call_count, lim.calls_per_period)

\* The task of stock s has returned its CollectionResult and the batch has
\* taken it from as_completed (_process_batch_concurrent lines 171-175):
\* the data of a success goes to batch_data.
Finished(tk, status) ==
    [tk EXCEPT !.pc = "collected", !.slot = 0, !.seq = << >>, !.i = 0,
               !.log = << >>, !.status = status, !.results = @ + 1]

\* _collect_fundamentals_concurrent lines 211-217 on an inner-pool thread:
\* __enter__ (lines 289-292), then get_stock_fundamentals up to its query
\* sequence (lines 206-233).  A failed login makes it return None, which
\* __exit__ lets through and lines 226-228 turn into no_data.
Collect(s) ==
    /\ orch.pc = "running"
    /\ s \in DOMAIN task
    /\ task[s].pc = "pending"
    /\ batches[BatchIdx(s)].state = "running"
    /\ \E k \in Slots(BatchIdx(s)) \ BusySlots(BatchIdx(s)),
          login1 \in LoginOutcomes, login2 \in LoginOutcomes :
          LET b == BatchIdx(s)
              e1 == ensure_connection(batches[b].sess[k], login1)
              e2 == ensure_connection(e1.connected, login2)
          IN /\ batches' = [batches EXCEPT ![b].sess[k] = e2.connected]
             /\ IF e2.ok
                   THEN /\ task' = [task EXCEPT ![s] =
                              [@ EXCEPT !.pc = "query", !.slot = k, !.i = 1,
                                        !.seq = query_sequence(0, 0, clock)]]
                        /\ fetched' = NoFetch
                   ELSE /\ task' = [task EXCEPT ![s] =
                              Finished(@, result_of("none"))]
                        /\ fetched' = [stock |-> s, log |-> << >>,
                                       status |-> result_of("none")]
    /\ UNCHANGED <<orch, sink, limiter, stats>>
    /\ OrchFrame

\* One pass of the loop of get_stock_fundamentals (lines 237-246): a call of
\* get_financial_data for period seq[i] (lines 154-192), then lines 248-267
\* and 219-228 when the loop ends.  The period is not queried when
\* wait_if_needed raises out of its back-off.
FetchPeriod(s) ==
    /\ orch.pc = "running"
    /\ s \in DOMAIN task
    /\ task[s].pc = "query"
    /\ \E loginOut \in LoginOutcomes, waitOut \in {"returned", "raised"},
          queryOut \in QueryOutcomes :
          LET b == BatchIdx(s)
              k == task[s].slot
              e == ensure_connection(batches[b].sess[k], loginOut)
              w == wait_outcome(limiter)
              out == IF ~e.ok THEN "not_connected"
                     ELSE IF waitOut = "raised" THEN "wait_raised"
                     ELSE queryOut
              fd == financial_data_of(out)
              last == task[s].i = Len(task[s].seq)
              logged == Append(task[s].log,
                               [period |-> task[s].seq[task[s].i], out |-> out])
          IN /\ waitOut = "raised" => e.ok /\ w.should_sleep
             /\ limiter' = IF e.ok
                             THEN [limiter EXCEPT !.call_count = w.call_count]
                             ELSE limiter
             /\ IF fd = "data" \/ last
                   THEN /\ task' = [task EXCEPT ![s] = Finished(@, result_of(fd))]
                        /\ fetched' = [stock |-> s, log |-> logged,
                                       status |-> result_of(fd)]
                        /\ batches' = [batches EXCEPT
                              ![b].sess[k] = e.connected,
                              ![b].batch_data =
                                  IF fd = "data" THEN @ \cup {s} ELSE @]
                   ELSE /\ task' = [task EXCEPT ![s] =
                              [@ EXCEPT !.i = @ + 1, !.log = logged]]
                        /\ batches' = [batches EXCEPT ![b].sess[k] = e.connected]
                        /\ fetched' = NoFetch
    /\ UNCHANGED <<orch, sink, stats>>
    /\ OrchFrame

\* _process_batch_concurrent lines 179-198: the batch's own write to both
\* sinks, the handler of lines 195-196, and the return of batch_data on
\* every path.
BatchFlush(b) ==
    /\ orch.pc = "running"
    /\ b \in DOMAIN batches
    /\ batches[b].state = "running"
    /\ \A s \in BatchOf(b, orch.n, orch.batch_size) : task[s].pc = "collected"
    /\ \E out \in SinkOutcomes :
          LET data == batches[b].batch_data
              writes == data # {} /\ ~orch.dry_run
              csvDone == writes /\ out # "csv_raise"
              dbDone == writes /\ out = "ok"
              raised == writes /\ out # "ok"
          IN /\ sink' = [sink EXCEPT
                   !.csv = IF csvDone THEN @ \cup data ELSE @,
                   !.db = IF dbDone THEN @ \cup data ELSE @]
             /\ stats' = [stats EXCEPT
                   !.csv_batches = IF csvDone THEN @ + 1 ELSE @,
                   !.db_batches = IF dbDone THEN @ + 1 ELSE @,
                   !.batch_count = IF raised THEN @ ELSE @ + 1]
             /\ batches' = [batches EXCEPT
                   ![b].state = "returned",
                   ![b].sess = << >>,
                   ![b].flush = IF ~writes THEN "skipped"
                                ELSE IF out = "ok" THEN "ok"
                                ELSE IF out = "csv_raise" THEN "csv_failed"
                                ELSE "db_failed"]
    /\ fetched' = NoFetch
    /\ UNCHANGED <<orch, task, limiter>>
    /\ OrchFrame

\* execute_sync lines 96-108: the main thread takes a completed batch
\* future and extends fundamentals_data with what the batch returned.
MainCollect(b) ==
    /\ orch.pc = "running"
    /\ b \in DOMAIN batches
    /\ batches[b].state = "returned"
    /\ batches' = [batches EXCEPT ![b].state = "collected"]
    /\ orch' = IF batches[b].batch_data # {}
                 THEN [orch EXCEPT
                         !.fundamentals_data = @ \cup batches[b].batch_data,
                         !.batch_count = @ + 1]
                 ELSE orch
    /\ fetched' = NoFetch
    /\ UNCHANGED <<task, sink, limiter, stats>>
    /\ OrchFrame

\* execute_sync lines 110-119 with _process_final_batch (lines 235-262):
\* everything in fundamentals_data is written to both sinks, a failure is
\* logged, and the statistics are returned.
Final ==
    /\ orch.pc = "running"
    /\ \A b \in DOMAIN batches : batches[b].state = "collected"
    /\ \E out \in SinkOutcomes :
          LET data == orch.fundamentals_data
              writes == data # {} /\ ~orch.dry_run
              csvDone == writes /\ out # "csv_raise"
              dbDone == writes /\ out = "ok"
          IN /\ sink' = [sink EXCEPT
                   !.finalCsv = IF csvDone THEN data ELSE @,
                   !.finalDb = IF dbDone THEN data ELSE @]
             /\ stats' = [stats EXCEPT
                   !.csv_batches = IF csvDone THEN @ + 1 ELSE @,
                   !.db_batches = IF dbDone THEN @ + 1 ELSE @,
                   !.finished = TRUE]
    /\ orch' = [orch EXCEPT !.pc = "done"]
    /\ fetched' = NoFetch
    /\ UNCHANGED <<batches, task, limiter>>
    /\ OrchFrame

(***************************************************************************)
(* DataTransformer.calculate_change_rate (utils/data_transformer.py)       *)
(*                                                                         *)
(* Prices are counted in units of 0.0001 (parse_day_file_data rounds them  *)
(* to 4 decimals), rates in units of 0.0001 percent, so round(x, 4) is a   *)
(* rounding to an integer.  The division is exact, not a float division.   *)
(***************************************************************************)

\* Python's None and the float nan, as values no price and no rate takes.
None == 0 - 2000000000
NaN == None - 1

Abs(x) == IF x < 0 THEN 0 - x ELSE x

\* The bool() of a number or None: `if not close`.
NumTruthy(x) == x # None /\ x # 0

\* round(n / d): to the nearest integer, a tie to the even one, as round()
\* does with a float.
RoundHalfEven(n, d) ==
    LET a == Abs(n)
        b == Abs(d)
        q == a \div b
        r == a % b
        m == IF 2 * r > b \/ (2 * r = b /\ q % 2 = 1) THEN q + 1 ELSE q
    IN IF (n < 0) = (d < 0) THEN m ELSE 0 - m

\* 10000 percent and 9999.9999 percent, in units of 0.0001 percent.
PrecisionLimit == 100000000
MaxStorable == 99999999

\* What calculate_change_rate_with_details returns when it returns None.
NoDetails ==
    [ is_none |-> TRUE, change_rate |-> None, raw_change_rate |-> None,
      is_truncated |-> FALSE, truncated_value |-> None, close_price |-> None,
      preclose_price |-> None, calculation |-> << >> ]

\* calculate_change_rate_with_details lines 359-385.
calculate_change_rate_with_details(close, preclose) ==
    IF ~NumTruthy(close) \/ ~NumTruthy(preclose) \/ preclose = 0
    THEN NoDetails
    ELSE LET raw_change_rate == RoundHalfEven((close - preclose) * 1000000, preclose)
             is_truncated == Abs(raw_change_rate) >= PrecisionLimit
             change_rate == IF is_truncated
                            THEN IF raw_change_rate > 0 THEN MaxStorable
                                                       ELSE 0 - MaxStorable
                            ELSE raw_change_rate
         IN [ is_none |-> FALSE,
              change_rate |-> change_rate,
              raw_change_rate |-> raw_change_rate,
              is_truncated |-> is_truncated,
              truncated_value |-> IF is_truncated THEN change_rate ELSE None,
              close_price |-> close,
              preclose_price |-> preclose,
              calculation |-> <<close, preclose, raw_change_rate>> ]

\* calculate_change_rate lines 344-345.
calculate_change_rate(close, preclose) ==
    LET result == calculate_change_rate_with_details(close, preclose)
    IN IF result.is_none THEN None ELSE result.change_rate

\* The arguments tried: every price up to MaxPrice in magnitude, and None.
RatePrices == ((0 - MaxPrice)..MaxPrice) \cup {None}

NoCalc == [ close |-> 0, preclose |-> 0, called |-> FALSE, result |-> NoDetails ]

InitCalc == calc \in [ close : RatePrices, preclose : RatePrices,
                       called : {FALSE}, result : {NoDetails} ]

\* One call of calculate_change_rate_with_details.
Calculate ==
    /\ ~calc.called
    /\ calc' = [calc EXCEPT !.called = TRUE,
                            !.result = calculate_change_rate_with_details(
                                           calc.close, calc.preclose)]
    /\ UNCHANGED <<limiterVars, statsVars, sourceVars, orchVars, raw, recon, gate, auxVars>>

(***************************************************************************)
(* The reconciler of K-line bars (sync/sync_manager.py,                    *)
(* data_sources/pytdx_source.py, sync/csv_writer.py)                       *)
(***************************************************************************)

\* The raw bars of one security as parse_day_file_data and
\* _convert_daily_dataframe make them: preclose and change_rate are None.
Opens == {0, 2}
Closes == {0, 1, 200}

RawBars ==
    [ trade_date : 1..MaxDate, trade_time : 1..MaxTime, open : Opens,
      close : Closes, preclose : {None}, change_rate : {None} ]

RECURSIVE SeqsUpTo(_, _)
SeqsUpTo(S, n) ==
    IF n = 0 THEN { << >> }
    ELSE LET shorter == SeqsUpTo(S, n - 1)
         IN shorter \cup { Append(s, x) : s \in { t \in shorter : Len(t) = n - 1 }, x \in S }

\* The sort keys: x['trade_date'], or (x['trade_date'], x['trade_time']).
KeyLE(a, b, minute) ==
    IF minute
    THEN \/ a.trade_date < b.trade_date
         \/ a.trade_date = b.trade_date /\ a.trade_time <= b.trade_time
    ELSE a.trade_date <= b.trade_date

\* No sorting at all: the list is left in the order it was supplied in.
list_unsorted(s, minute) == s

\* list.sort(key=...): ascending and stable, bars of equal key keep the
\* order they were supplied in.
RECURSIVE list_sort(_, _)
list_sort(s, minute) ==
    IF s = << >> THEN << >>
    ELSE LET front == list_sort(SubSeq(s, 1, Len(s) - 1), minute)
             x == s[Len(s)]
             k == Cardinality({ i \in 1..Len(front) : KeyLE(front[i], x, minute) })
         IN SubSeq(front, 1, k) \o <<x>> \o SubSeq(front, k + 1, Len(front))

\* SyncManager._post_process_daily_data lines 333-355: the first bar of the
\* sorted list is left as it was.
SyncManager_post_process_daily_data(daily_data) ==
    IF Len(daily_data) <= 1 THEN daily_data
    ELSE LET s == list_sort(daily_data, FALSE)
         IN [ i \in 1..Len(s) |->
                IF i = 1 THEN s[i]
                ELSE LET preclose == s[i - 1].close
                     IN [ s[i] EXCEPT
                            !.preclose = preclose,
                            !.change_rate =
                                IF NumTruthy(preclose) /\ NumTruthy(s[i].close)
                                THEN calculate_change_rate(s[i].close, preclose)
                                ELSE @ ] ]

\* PytdxSource._post_process_daily_data lines 260-280 and
\* _post_process_minute_data lines 345-366, which differ in the sort key.
PytdxSource_post_process(data, minute) ==
    IF Len(data) <= 1 THEN data
    ELSE LET s == list_sort(data, minute)
         IN [ i \in 1..Len(s) |->
                IF i = 1 THEN [ s[i] EXCEPT !.preclose = s[i].open ]
                ELSE LET preclose == s[i - 1].close
                     IN [ s[i] EXCEPT
                            !.preclose = preclose,
                            !.change_rate =
                                IF NumTruthy(preclose) /\ NumTruthy(s[i].close)
                                THEN calculate_change_rate(s[i].close, preclose)
                                ELSE @ ] ]

PytdxSource_post_process_daily_data(daily_data) ==
    PytdxSource_post_process(daily_data, FALSE)

PytdxSource_post_process_minute_data(minute_data) ==
    PytdxSource_post_process(minute_data, TRUE)

\* The subsequence of s at the positions in keep.
RECURSIVE Select(_, _, _)
Select(s, keep, i) ==
    IF i > Len(s) THEN << >>
    ELSE (IF i \in keep THEN <<s[i]>> ELSE << >>) \o Select(s, keep, i + 1)

\* A deduplication that keeps the first row of each date instead.
drop_duplicates_keep_first(rows) ==
    Select(rows,
           { i \in 1..Len(rows) :
               \A j \in 1..(i - 1) : rows[j].trade_date # rows[i].trade_date },
           1)

\* df.drop_duplicates(subset=['ts_code', 'trade_date'], keep='last') for
\* the rows of one security: a row stays when no later row has its date.
drop_duplicates(rows) ==
    Select(rows,
           { i \in 1..Len(rows) :
               \A j \in (i + 1)..Len(rows) : rows[j].trade_date # rows[i].trade_date },
           1)

\* pd.DataFrame(rows): a column holding a number anywhere is a float column,
\* and its None entries become nan; a column of None only keeps them.
DataFrame(rows) ==
    LET floatPre == \E i \in 1..Len(rows) : rows[i].preclose # None
        floatChg == \E i \in 1..Len(rows) : rows[i].change_rate # None
    IN [ i \in 1..Len(rows) |->
           [ rows[i] EXCEPT
               !.preclose = IF floatPre /\ @ = None THEN NaN ELSE @,
               !.change_rate = IF floatChg /\ @ = None THEN NaN ELSE @ ] ]

\* _assemble_daily_data_with_fundamentals lines 306-321.
SyncManager_assemble_daily_data(daily_data) ==
    IF daily_data = << >> THEN << >>
    ELSE drop_duplicates(DataFrame(daily_data))

\* write_his_kline_day lines 243-279 and _write_kline_data_by_trade_date
\* lines 289-326: the rows written, file by file in date order.  The
\* mapping's `data.get('change_rate') or data.get('pct_chg')` turns a
\* change_rate of 0 into None.
write_his_kline_day(daily_data) ==
    IF daily_data = << >> THEN << >>
    ELSE LET mapped_data ==
                 [ i \in 1..Len(daily_data) |->
                     [ daily_data[i] EXCEPT
                         !.change_rate = IF @ = None \/ @ = 0 THEN None ELSE @ ] ]
         IN list_sort(drop_duplicates(DataFrame(mapped_data)), FALSE)

NoRecon == [ routine |-> "none", data |-> << >> ]

InitRecon ==
    /\ raw \in SeqsUpTo(RawBars, MaxBars)
    /\ recon = NoRecon

ReconFrame == UNCHANGED <<limiterVars, statsVars, sourceVars, orchVars, raw, calc, gate, auxVars>>

\* _scan_all_files line 489: the records of one .day file are post-processed.
ScanFile ==
    /\ recon.routine = "none"
    /\ recon' = [ routine |-> "scan",
                  data |-> SyncManager_post_process_daily_data(raw) ]
    /\ ReconFrame

\* sync_daily_data lines 187-192: the scanned bars, if any, are assembled.
Assemble ==
    /\ recon.routine = "scan"
    /\ recon.data # << >>
    /\ recon' = [ routine |-> "assemble",
                  data |-> SyncManager_assemble_daily_data(recon.data) ]
    /\ ReconFrame

\* sync_daily_data: the assembled bars are written to the CSV files.
WriteCsv ==
    /\ recon.routine = "assemble"
    /\ recon' = [ routine |-> "csv", data |-> write_his_kline_day(recon.data) ]
    /\ ReconFrame

\* PytdxSource.get_daily_data: the converted bars are post-processed.
PytdxDaily ==
    /\ recon.routine = "none"
    /\ recon' = [ routine |-> "pytdx_daily",
                  data |-> PytdxSource_post_process_daily_data(raw) ]
    /\ ReconFrame

\* PytdxSource.get_minute_data: the converted bars are post-processed.
PytdxMinute ==
    /\ recon.routine = "none"
    /\ recon' = [ routine |-> "pytdx_minute",
                  data |-> PytdxSource_post_process_minute_data(raw) ]
    /\ ReconFrame

(***************************************************************************)
(* DailyKlineAnomalyDetector (utils/daily_kline_anomaly_detector.py)       *)
(*                                                                         *)
(* Prices are counted in units of 0.0001 and rates in units of 0.0001      *)
(* percent, as above, volumes in units of 1e9.  The bars are not of a      *)
(* special-treatment stock (is_st is absent or False).                     *)
(***************************************************************************)

\* _load_detection_config lines 55-61: the default limits.
PriceMin == 100
PriceMax == 100000000
VolumeLimit == 1000
MaxChangeRate == 200000

\* An AnomalyRecord (lines 13-23).  actual_value is the tuple of the numbers
\* the record carries.
AnomalyRecord(data, anomaly_type, field_name, actual_value, severity) ==
    [ ts_code |-> data.ts_code, trade_date |-> data.trade_date,
      anomaly_type |-> anomaly_type, field_name |-> field_name,
      actual_value |-> actual_value, severity |-> severity ]

\* _detect_price_anomalies lines 138-168, for one of the four price fields.
price_anomaly(data, field, price) ==
    IF price = None THEN << >>
    ELSE IF price <= 0
    THEN << AnomalyRecord(data, "price_invalid", field, <<price>>, "error") >>
    ELSE IF price < PriceMin \/ price > PriceMax
    THEN << AnomalyRecord(data, "price_out_of_range", field, <<price>>, "warning") >>
    ELSE << >>

\* _detect_price_anomalies lines 132-170.
detect_price_anomalies(data) ==
    price_anomaly(data, "open", data.open) \o price_anomaly(data, "high", data.high)
        \o price_anomaly(data, "low", data.low) \o price_anomaly(data, "close", data.close)

\* _detect_volume_anomalies lines 172-218.
detect_volume_anomalies(data) ==
    (IF data.volume # None /\ data.volume < 0
     THEN << AnomalyRecord(data, "volume_invalid", "volume", <<data.volume>>, "error") >>
     ELSE << >>)
    \o (IF data.volume # None /\ data.volume > VolumeLimit
        THEN << AnomalyRecord(data, "volume_excessive", "volume", <<data.volume>>, "warning") >>
        ELSE << >>)
    \o (IF data.amount # None /\ data.amount < 0
        THEN << AnomalyRecord(data, "amount_invalid", "amount", <<data.amount>>, "error") >>
        ELSE << >>)

\* _detect_price_logic_anomalies line 230: `high > 0 and low > 0` compares
\* None with 0, which raises TypeError.
price_logic_raises(data) ==
    \/ data.high = None
    \/ data.high > 0 /\ data.low = None

\* _detect_price_logic_anomalies lines 224-268, when it does not raise.
detect_price_logic_anomalies(data) ==
    LET high == data.high
        low == data.low
        outside(price) == NumTruthy(price) /\ NumTruthy(high) /\ NumTruthy(low)
                              /\ ~(low <= price /\ price <= high)
    IN (IF high > 0 /\ low > 0 /\ high < low
        THEN << AnomalyRecord(data, "price_logic_error", "price_logic",
                              <<high, low>>, "error") >>
        ELSE << >>)
       \o (IF outside(data.open)
           THEN << AnomalyRecord(data, "open_price_logic_error", "open",
                                 <<data.open>>, "error") >>
           ELSE << >>)
       \o (IF outside(data.close)
           THEN << AnomalyRecord(data, "close_price_logic_error", "close",
                                 <<data.close>>, "error") >>
           ELSE << >>)

\* _detect_change_rate_anomalies lines 271-324.  A nan makes every
\* comparison false.  The tolerance is 0.05 above 10 percent, else 0.01, and
\* the expected rate is the unrounded quotient.
detect_change_rate_anomalies(data) ==
    LET change_rate == data.change_rate
        preclose == data.preclose
        close == data.close
        tolerance == IF Abs(change_rate) > 100000 THEN 500 ELSE 100
    IN IF change_rate = None \/ change_rate = NaN THEN << >>
       ELSE (IF Abs(change_rate) > MaxChangeRate
             THEN << AnomalyRecord(data, "change_rate_excessive", "change_rate",
                                   <<change_rate>>, "warning") >>
             ELSE << >>)
            \o (IF /\ NumTruthy(preclose) /\ preclose # NaN /\ NumTruthy(close)
                   /\ Abs((close - preclose) * 1000000 - change_rate * preclose)
                          > tolerance * Abs(preclose)
                THEN << AnomalyRecord(data, "change_rate_calculation_error",
                                      "change_rate", <<change_rate>>, "error") >>
                ELSE << >>)

\* A precision check that looks for stored rates of 10000 percent or more.
detect_change_rate_precision_anomalies_at_limit(data) ==
    LET change_rate == data.change_rate
        calc_details == IF data.preclose = NaN THEN NoDetails
                        ELSE calculate_change_rate_with_details(data.close, data.preclose)
    IN IF /\ change_rate # None /\ change_rate # NaN
          /\ Abs(change_rate) >= PrecisionLimit
          /\ ~calc_details.is_none /\ calc_details.is_truncated
       THEN << AnomalyRecord(data, "change_rate_precision_overflow", "change_rate",
                             << calc_details.truncated_value >>, "warning") >>
       ELSE << >>

\* _detect_change_rate_precision_anomalies lines 326-361.
detect_change_rate_precision_anomalies(data) ==
    LET change_rate == data.change_rate
        calc_details == IF data.preclose = NaN THEN NoDetails
                        ELSE calculate_change_rate_with_details(data.close, data.preclose)
    IN IF /\ change_rate # None /\ change_rate # NaN
          /\ Abs(change_rate) >= MaxStorable
          /\ ~calc_details.is_none /\ calc_details.is_truncated
       THEN << AnomalyRecord(data, "change_rate_precision_overflow", "change_rate",
                             << calc_details.truncated_value,
                                calc_details.raw_change_rate >>
                                 \o calc_details.calculation
                                 \o << calc_details.close_price,
                                       calc_details.preclose_price >>,
                             "warning") >>
       ELSE << >>

\* _detect_single_anomaly lines 101-130 inside the try of
\* detect_anomalies_batch (lines 80-86): the records one bar adds to
\* self.anomalies; none when the bar has no ts_code or trade_date, and none
\* when a check raises.
detect_single_anomaly(data) ==
    IF data.ts_code = "" \/ data.trade_date = None THEN << >>
    ELSE IF price_logic_raises(data) THEN << >>
    ELSE detect_price_anomalies(data) \o detect_volume_anomalies(data)
             \o detect_price_logic_anomalies(data)
             \o detect_change_rate_anomalies(data)
             \o detect_change_rate_precision_anomalies(data)

RECURSIVE detect_all(_, _)
detect_all(daily_data, i) ==
    IF i > Len(daily_data) THEN << >>
    ELSE detect_single_anomaly(daily_data[i]) \o detect_all(daily_data, i + 1)

\* detect_anomalies_batch lines 73-89 without line 76: the records are added
\* to the list the detector already holds.
detect_anomalies_batch_accumulating(self, daily_data) ==
    IF ~self.enabled
    THEN [self EXCEPT !.result = << >>, !.aliased = FALSE]
    ELSE LET anomalies == self.anomalies \o detect_all(daily_data, 1)
         IN [self EXCEPT !.anomalies = anomalies, !.result = anomalies,
                         !.aliased = TRUE]

\* detect_anomalies_batch lines 73-89.  The list returned is self.anomalies
\* itself, not a copy.
detect_anomalies_batch(self, daily_data) ==
    IF ~self.enabled
    THEN [self EXCEPT !.result = << >>, !.aliased = FALSE]
    ELSE LET anomalies == detect_all(daily_data, 1)
         IN [self EXCEPT !.anomalies = anomalies, !.result = anomalies,
                         !.aliased = TRUE]

\* get_anomaly_records_by_severity lines 427-430: a new list.
get_anomaly_records_by_severity(self, severity) ==
    [self EXCEPT
        !.result = IF severity = "None" THEN self.anomalies
                   ELSE SelectSeq(self.anomalies, LAMBDA a : a.severity = severity),
        !.aliased = FALSE]

\* clear_anomalies line 434: the list is emptied in place, and with it the
\* list the last detect_anomalies_batch returned, when that is still held.
clear_anomalies(self) ==
    [self EXCEPT !.anomalies = << >>,
                 !.result = IF self.aliased THEN << >> ELSE @]

\* The bars given to the gate: every combination of the prices below, with
\* or without the identifying fields, a preclose, and a change_rate that is
\* absent, the one calculate_change_rate gives, or another number.
GatePrices == {None, 0 - 1, 0, 1, 200}

\* The change_rate values a bar can carry.
GateRates(close, preclose) ==
    {None, NaN, 0, MaxStorable, 0 - MaxStorable,
     IF preclose = NaN THEN NaN ELSE calculate_change_rate(close, preclose)}

GateBars ==
    { b \in [ ts_code : {"", "sh.600000"}, trade_date : {None, 1},
              open : GatePrices, high : GatePrices, low : GatePrices,
              close : GatePrices, volume : {0 - 1, 0, VolumeLimit + 1},
              amount : {0}, preclose : {None, NaN, 0, 1, 0 - 1},
              change_rate : UNION { GateRates(c, p) : c \in GatePrices,
                                                      p \in {None, NaN, 0, 1, 0 - 1} } ] :
        b.change_rate \in GateRates(b.close, b.preclose) }

\* A bar with all four prices equal.
FlatBar(price, preclose, change_rate) ==
    [ ts_code |-> "sh.600000", trade_date |-> 1, open |-> price, high |-> price,
      low |-> price, close |-> price, volume |-> 0, amount |-> 0,
      preclose |-> preclose, change_rate |-> change_rate ]

\* The bars the batches are made of: a sound one, one with high = 0 below
\* low, one whose change_rate was clamped, and one without a high.
BatchBars ==
    { FlatBar(200, 200, 0),
      [ FlatBar(1, None, None) EXCEPT !.high = 0 ],
      FlatBar(200, 1, MaxStorable),
      [ FlatBar(200, None, None) EXCEPT !.high = None ] }

\* DailyKlineAnomalyDetector.__init__ lines 46-51, and the history of its
\* use: the last operation, its argument, and how many records the
\* detector held when it began.
DetectorInit(enabled, batch) ==
    [ enabled |-> enabled, anomalies |-> << >>, result |-> << >>,
      aliased |-> FALSE, op |-> "init", batch |-> batch, prior |-> 0 ]

NoGate == DetectorInit(TRUE, << >>)

GateFrame == UNCHANGED <<limiterVars, statsVars, sourceVars, orchVars, raw, recon, calc, auxVars>>

\* One call of detect_anomalies_batch.
DetectBatch(daily_data) ==
    /\ gate' = [ detect_anomalies_batch(gate, daily_data) EXCEPT
                    !.op = "detect", !.batch = daily_data,
                    !.prior = Len(gate.anomalies) ]
    /\ GateFrame

\* One call of clear_anomalies.
ClearAnomalies ==
    /\ gate' = [ clear_anomalies(gate) EXCEPT
                    !.op = "clear", !.prior = Len(gate.anomalies) ]
    /\ GateFrame

\* One call of get_anomaly_records_by_severity.
GetRecords(severity) ==
    /\ gate' = [ get_anomaly_records_by_severity(gate, severity) EXCEPT
                    !.op = "get", !.prior = Len(gate.anomalies) ]
    /\ GateFrame

\* The gate given the one bar it holds.
DetectBar ==
    /\ gate.op = "init"
    /\ DetectBatch(gate.batch)

(***************************************************************************)
(* The decoders and the file scan (utils/data_transformer.py,              *)
(* sync/sync_manager.py)                                                   *)
(***************************************************************************)

\* The first int of a record: a date, a date strptime rejects (30 February,
\* month 13), a date of 1980, and zero.
Stamps == {20250102, 20250230, 20251301, 19800102, 0}

\* The records of a file as f.read(record_size) returns them: only the last
\* can be shorter than record_size.
RecordFiles ==
    { file \in SeqsUpTo([stamp : Stamps, short : BOOLEAN], MaxRecords) :
        \A i \in 1..Len(file) : file[i].short => i = Len(file) }

\* date(year, month, day) and strptime(..., '%Y%m%d') accept the packed date.
ValidDate(stamp) ==
    LET year == stamp \div 10000
        month == (stamp \div 100) % 100
        day == stamp % 100
        leap == year % 4 = 0 /\ (year % 100 # 0 \/ year % 400 = 0)
        days == IF month = 2 THEN (IF leap THEN 29 ELSE 28)
                ELSE IF month \in {4, 6, 9, 11} THEN 30 ELSE 31
    IN year >= 1 /\ month \in 1..12 /\ day \in 1..days

\* parse_day_file_data lines 81-109: struct.unpack raises on a short buffer
\* and strptime on an invalid date; nothing catches either.
parse_day_file_data(raw_data) ==
    IF raw_data.short \/ ~ValidDate(raw_data.stamp) THEN "raise" ELSE "record"

\* parse_minute_file_data lines 124-206, for the 8-digit stamps: every
\* exception is caught and None returned.
parse_minute_file_data(raw_data) ==
    LET year == raw_data.stamp \div 10000
    IN IF raw_data.short \/ raw_data.stamp <= 0 THEN "None"
       ELSE IF ~ValidDate(raw_data.stamp) THEN "None"
       ELSE IF 1990 <= year /\ year <= 2100 THEN "record" ELSE "None"

\* _scan_all_files lines 419-499 for one file: the positions of the records
\* that reach all_data.  A raise inside the loop leaves it for the handler
\* at line 496, before line 493 has added anything of the file.
RECURSIVE scan_records(_, _, _)
scan_records(file_type, file, i) ==
    IF i > Len(file) THEN [ failed |-> FALSE, file_data |-> << >> ]
    ELSE LET parsed_data == IF file_type = "day" THEN parse_day_file_data(file[i])
                            ELSE parse_minute_file_data(file[i])
             rest == scan_records(file_type, file, i + 1)
         IN IF parsed_data = "raise" \/ rest.failed
            THEN [ failed |-> TRUE, file_data |-> << >> ]
            ELSE IF parsed_data = "None" THEN rest
            ELSE [ failed |-> FALSE, file_data |-> <<i>> \o rest.file_data ]

NoScan == [ file_type |-> "day", file |-> << >>, pc |-> "idle", failed |-> FALSE,
            all_data |-> << >> ]

InitScan ==
    \E file_type \in {"day", "5min"}, file \in RecordFiles :
        scan = [ NoScan EXCEPT !.file_type = file_type, !.file = file, !.pc = "open" ]

\* _scan_all_files: one file is read to its end.
ReadFile ==
    /\ scan.pc = "open"
    /\ LET r == scan_records(scan.file_type, scan.file, 1)
       IN scan' = [ scan EXCEPT !.pc = "closed", !.failed = r.failed,
                                !.all_data = r.file_data ]
    /\ UNCHANGED <<limiterVars, statsVars, sourceVars, orchVars, pipeVars,
                   pytdx, csv, seqfm, exec>>

\* ---------------------------------------------------------------------
\* CsvWriter (sync/csv_writer.py): the write sessions, the files on disk
\* and the steps of _write_csv_file.  A file is [exists, rows]; a row is
\* an integer (OldRow for content left by an earlier run).
\* ---------------------------------------------------------------------
MaxWrites == 3
NumWriters == 2
Paths == {1, 2}
OldRow == 0
Absent == [ exists |-> FALSE, rows |-> << >> ]
OldFile == [ exists |-> TRUE, rows |-> <<OldRow>> ]
CsvWriters == 1..NumWriters
\* the rows of the k-th write: none, one or two fresh rows
WriteData(k) == { << >>, <<10 * k + 1>>, <<10 * k + 1, 10 * k + 2>> }

\* the delete-always policy, which ignores the sessions
_should_delete_file_always(sessions, disk, filepath) ==
    disk[filepath].exists

\* for session_id, written_files in self._write_sessions.items(): ...
\* return os.path.exists(filepath)
_should_delete_file(sessions, disk, filepath) ==
    IF \E i \in 1..Len(sessions) : filepath \in sessions[i]
    THEN FALSE
    ELSE disk[filepath].exists

\* os.remove inside try/except: a missing file raises, which is only logged
os_remove(disk, filepath) == [disk EXCEPT ![filepath] = Absent]

\* df.to_csv(filepath, mode=mode, ...): 'w' truncates, 'a' appends
\* (and creates the file when it is missing)
to_csv(disk, filepath, data, mode) ==
    IF mode = "a"
    THEN [disk EXCEPT ![filepath] = [ exists |-> TRUE, rows |-> disk[filepath].rows \o data ]]
    ELSE [disk EXCEPT ![filepath] = [ exists |-> TRUE, rows |-> data ]]

\* session_id None: the latest session, or a new "Auto session"
_mark_file_written(sessions, filepath) ==
    IF Len(sessions) > 0
    THEN [sessions EXCEPT ![Len(sessions)] = @ \cup {filepath}]
    ELSE <<{filepath}>>

\* the whole of _write_csv_file, run by one caller without interruption
_write_csv_file(sessions, disk, filepath, data) ==
    IF data = << >>
    THEN [ sessions |-> sessions, disk |-> disk ]
    ELSE LET should_delete == _should_delete_file(sessions, disk, filepath)
             removed == IF should_delete THEN os_remove(disk, filepath) ELSE disk
             file_exists == removed[filepath].exists
             mode == IF file_exists THEN "a" ELSE "w"
         IN  [ sessions |-> _mark_file_written(sessions, filepath),
               disk |-> to_csv(removed, filepath, data, mode) ]

IdleWriter == [ pc |-> "idle", filepath |-> 1, data |-> << >>,
                should_delete |-> FALSE, file_exists |-> FALSE ]
NoCsv == [ sessions |-> << >>,
           disk |-> [ p \in Paths |-> Absent ],
           pre |-> [ p \in Paths |-> Absent ],
           log |-> << >>,
           w |-> [ t \in CsvWriters |-> IdleWriter ] ]

\* CsvWriter.__init__ (no session) over any content left on disk
InitCsv ==
    \E disk \in [Paths -> {Absent, OldFile}] :
        csv = [NoCsv EXCEPT !.disk = disk, !.pre = disk]

CsvFrame == UNCHANGED <<limiterVars, statsVars, sourceVars, orchVars, pipeVars,
                        scan, pytdx, seqfm, exec>>

\* one call of _write_csv_file in a single-threaded run
WriteCsvFile ==
    /\ Len(csv.log) < MaxWrites
    /\ \E filepath \in Paths, data \in WriteData(Len(csv.log) + 1) :
          LET out == _write_csv_file(csv.sessions, csv.disk, filepath, data)
          IN  csv' = [csv EXCEPT !.sessions = out.sessions,
                                 !.disk = out.disk,
                                 !.log = Append(@, [ filepath |-> filepath, data |-> data ])]
    /\ CsvFrame

\* two batch workers of the concurrent orchestrator, each inside
\* write_base_fundamentals_info: same file name for both
InitCsvWorkers ==
    \E disk \in [Paths -> {Absent, OldFile}],
       size \in [CsvWriters -> 1..2] :
        csv = [NoCsv EXCEPT
                 !.disk = disk, !.pre = disk,
                 !.w = [ t \in CsvWriters |->
                           [IdleWriter EXCEPT
                              !.pc = "check",
                              !.data = [ i \in 1..size[t] |-> 10 * t + i ]] ]]

\* should_delete = self._should_delete_file(filepath, data_type)
WorkerCheck(t) ==
    /\ csv.w[t].pc = "check"
    /\ csv' = [csv EXCEPT
                 !.w[t].should_delete =
                     _should_delete_file(csv.sessions, csv.disk, csv.w[t].filepath),
                 !.w[t].pc = "delete"]
    /\ CsvFrame

\* if should_delete: os.remove(filepath)
WorkerDelete(t) ==
    /\ csv.w[t].pc = "delete"
    /\ csv' = [csv EXCEPT
                 !.disk = IF csv.w[t].should_delete
                          THEN os_remove(csv.disk, csv.w[t].filepath)
                          ELSE @,
                 !.w[t].pc = "exists"]
    /\ CsvFrame

\* file_exists = os.path.exists(filepath)
WorkerExists(t) ==
    /\ csv.w[t].pc = "exists"
    /\ csv' = [csv EXCEPT
                 !.w[t].file_exists = csv.disk[csv.w[t].filepath].exists,
                 !.w[t].pc = "write"]
    /\ CsvFrame

\* df.to_csv(filepath, mode=mode, ...)
WorkerToCsv(t) ==
    /\ csv.w[t].pc = "write"
    /\ csv' = [csv EXCEPT
                 !.disk = to_csv(csv.disk, csv.w[t].filepath, csv.w[t].data,
                                 IF csv.w[t].file_exists THEN "a" ELSE "w"),
                 !.w[t].pc = "mark"]
    /\ CsvFrame

\* self._mark_file_written(filepath)
WorkerMark(t) ==
    /\ csv.w[t].pc = "mark"
    /\ csv' = [csv EXCEPT
                 !.sessions = _mark_file_written(csv.sessions, csv.w[t].filepath),
                 !.log = Append(@, [ filepath |-> csv.w[t].filepath, data |-> csv.w[t].data ]),
                 !.w[t].pc = "done"]
    /\ CsvFrame

\* ---------------------------------------------------------------------
\* PytdxSource.get_daily_data / get_minute_data (data_sources/
\* pytdx_source.py): the files of one 6-digit code in the market
\* directories bj, sh, sz (1, 2, 3), read one after the other.
\* ---------------------------------------------------------------------
MaxFileBars == 2
Markets == 1..3

\* the bars a reader returns for one file: chronological, one per date
\* (an empty sequence: no such file); prices of different markets differ
FileBars(market) ==
    { file \in SeqsUpTo([ trade_date : 1..MaxDate,
                          close : { 10 * market + d : d \in 1..MaxDate } ],
                        MaxFileBars) :
        /\ \A i \in 1..Len(file) : file[i].close = 10 * market + file[i].trade_date
        /\ \A i \in 1..(Len(file) - 1) : file[i].trade_date < file[i + 1].trade_date }

\* _convert_daily_dataframe / _convert_minute_dataframe: the standard
\* record, with ts_code = f"{market}.{code}"
_convert_dataframe(df, market) ==
    [ i \in 1..Len(df) |->
        [ ts_code |-> market, trade_date |-> df[i].trade_date, trade_time |-> 1,
          open |-> 10 * market, close |-> df[i].close,
          preclose |-> None, change_rate |-> None ] ]

RECURSIVE extend_markets(_, _)
\* for market in ['bj', 'sh', 'sz']: ... data.extend(converted_data)
extend_markets(files, market) ==
    IF market = 0 THEN << >>
    ELSE extend_markets(files, market - 1) \o _convert_dataframe(files[market], market)

get_daily_data(files) ==
    PytdxSource_post_process_daily_data(extend_markets(files, 3))

get_minute_data(files) ==
    PytdxSource_post_process_minute_data(extend_markets(files, 3))

NoPytdx == [ files |-> << << >>, << >>, << >> >>, pc |-> "idle", data |-> << >> ]

InitPytdx ==
    \E bj \in FileBars(1), sh \in FileBars(2), sz \in FileBars(3) :
        pytdx = [NoPytdx EXCEPT !.files = <<bj, sh, sz>>, !.pc = "ready"]

PytdxFrame == UNCHANGED <<limiterVars, statsVars, sourceVars, orchVars, pipeVars,
                          scan, csv, seqfm, exec>>

GetDailyData ==
    /\ pytdx.pc = "ready"
    /\ pytdx' = [pytdx EXCEPT !.pc = "daily", !.data = get_daily_data(pytdx.files)]
    /\ PytdxFrame

GetMinuteData ==
    /\ pytdx.pc = "ready"
    /\ pytdx' = [pytdx EXCEPT !.pc = "minute", !.data = get_minute_data(pytdx.files)]
    /\ PytdxFrame

\* ---------------------------------------------------------------------
\* FundamentalsManager.execute_sync (sync/fundamentals_manager.py): the
\* sequential run, one stock after the other, with a write to the sinks
\* every batch_size stocks.
\* ---------------------------------------------------------------------
MaxSeqStocks == 3
FetchOutcomes == {"data", "empty", "raise"}

\* the stats dictionary of lines 55-71
SeqStatsInit ==
    [ total_stocks |-> 0, successful |-> 0, failed |-> 0, no_data |-> 0,
      error_count |-> 0, batch_count |-> 0, error |-> FALSE ]

NoSeq ==
    [ pc |-> "idle", n |-> 0, batch_size |-> 0, dry_run |-> FALSE, i |-> 0,
      fundamentals_data |-> << >>, collection_stats |-> CollectionStatisticsInit,
      stats |-> SeqStatsInit, results |-> << >>, write_raised |-> FALSE ]

\* _collect_fundamentals_with_status lines 293-304: the result made from
\* what get_stock_fundamentals did
collect_status(fetch) ==
    IF fetch = "data" THEN "success"
    ELSE IF fetch = "empty" THEN "no_data"
    ELSE "error"

\* lines 103-121: the counter of the stats dictionary for one result
count_result(st, status) ==
    IF status = "success" THEN [st EXCEPT !.successful = @ + 1]
    ELSE IF status = "no_data" THEN [st EXCEPT !.no_data = @ + 1]
    ELSE [st EXCEPT !.error_count = @ + 1, !.failed = @ + 1]

\* _process_data_batch lines 306-350: a failure of either sink is logged
\* and raised again; a dry run writes nothing
process_data_batch_raises(dry_run, out) == ~dry_run /\ out # "ok"

InitSeq ==
    \E batch_size \in 0..MaxBatchSize, dry_run \in BOOLEAN :
        seqfm = [NoSeq EXCEPT !.pc = "init", !.batch_size = batch_size,
                              !.dry_run = dry_run]

SeqFrame == UNCHANGED <<limiterVars, statsVars, sourceVars, orchVars, pipeVars,
                        scan, pytdx, csv, exec>>

\* lines 73-85: connect, the stock list, total_stocks; a failure of either
\* goes to the handler of lines 173-176, an empty list returns at once
SeqStart ==
    /\ seqfm.pc = "init"
    /\ \E connected_ok \in BOOLEAN, n \in 0..MaxSeqStocks :
          IF ~connected_ok
          THEN seqfm' = [seqfm EXCEPT !.pc = "done", !.stats.error = TRUE]
          ELSE seqfm' = [seqfm EXCEPT
                           !.pc = IF n = 0 THEN "done" ELSE "loop",
                           !.n = n,
                           !.stats.total_stocks = n,
                           !.results = [ s \in 1..n |-> 0 ]]
    /\ SeqFrame

\* lines 88-141: one turn of the loop, for stock i + 1
SeqProcessStock ==
    /\ seqfm.pc = "loop"
    /\ seqfm.i < seqfm.n
    /\ \E fetch \in FetchOutcomes, execution_time \in 0..MaxExecTime,
          out \in SinkOutcomes :
          LET i == seqfm.i + 1
              status == collect_status(fetch)
              cs1 == CollectionStatistics_add_result(seqfm.collection_stats,
                         CollectionResult(status, execution_time))
              st1 == count_result(seqfm.stats, status)
              fd1 == IF status = "success"
                     THEN Append(seqfm.fundamentals_data, i)
                     ELSE seqfm.fundamentals_data
              \* (i + 1) % batch_size with batch_size = 0: ZeroDivisionError
              zero == seqfm.batch_size = 0
              boundary == ~zero /\ i % seqfm.batch_size = 0
              flush == boundary /\ fd1 # << >>
              write_raises == flush /\ process_data_batch_raises(seqfm.dry_run, out)
              raised == zero \/ write_raises
              \* the handler of lines 143-150
              cs2 == IF raised
                     THEN CollectionStatistics_add_result(cs1,
                              CollectionResult("error", execution_time))
                     ELSE cs1
              st2 == IF raised
                     THEN count_result(st1, "error")
                     ELSE IF flush THEN [st1 EXCEPT !.batch_count = @ + 1]
                     ELSE st1
          IN  seqfm' = [seqfm EXCEPT
                          !.i = i,
                          !.collection_stats = cs2,
                          !.stats = st2,
                          !.fundamentals_data = IF flush /\ ~raised THEN << >> ELSE fd1,
                          !.results[i] = IF raised THEN 2 ELSE 1,
                          !.write_raised = @ \/ write_raises]
    /\ SeqFrame

\* lines 152-171 and 173-176: the remaining data, then the statistics
SeqFinish ==
    /\ seqfm.pc = "loop"
    /\ seqfm.i = seqfm.n
    /\ \E out \in SinkOutcomes :
          LET flush == seqfm.fundamentals_data # << >>
              raised == flush /\ process_data_batch_raises(seqfm.dry_run, out)
          IN  seqfm' = [seqfm EXCEPT
                          !.pc = "done",
                          !.stats.batch_count = IF flush /\ ~raised THEN @ + 1 ELSE @,
                          !.stats.error = raised,
                          !.write_raised = @ \/ raised]
    /\ SeqFrame

\* ---------------------------------------------------------------------
\* TaskExecutor.execute_task (sync/executor.py) on one SyncTask
\* (sync/tasks.py): validate, execute, and the recursive retry.
\* ---------------------------------------------------------------------
MaxRetries == 3
ValidateOutcomes == {"true", "false", "raise"}

\* SyncTask.can_retry with the bound included
can_retry_inclusive(retry_count, max_retries) == retry_count <= max_retries

\* SyncTask.can_retry
can_retry(retry_count, max_retries) == retry_count < max_retries

\* SyncTask.__init__ and TaskExecutor.__init__ (no call yet)
NoExec ==
    [ pc |-> "idle", status |-> "pending", retry_count |-> 0, max_retries |-> 0,
      validate |-> "true", running |-> FALSE, depth |-> 0, attempts |-> << >>,
      result |-> "none" ]

\* a new task, whose validate() depends on its parameters only, handed
\* to execute_task
InitExec ==
    \E max_retries \in 0..MaxRetries, validate \in ValidateOutcomes :
        exec = [NoExec EXCEPT !.pc = "call", !.max_retries = max_retries,
                              !.validate = validate]

ExecFrame == UNCHANGED <<limiterVars, statsVars, sourceVars, orchVars, pipeVars,
                         scan, pytdx, csv, seqfm>>

\* lines 32-33
ExecEnter ==
    /\ exec.pc = "call"
    /\ exec' = [exec EXCEPT !.status = "running", !.running = TRUE, !.pc = "validate"]
    /\ ExecFrame

\* lines 37-44
ExecValidate ==
    /\ exec.pc = "validate"
    /\ exec' = IF exec.validate = "raise" THEN [exec EXCEPT !.pc = "except"]
               ELSE IF exec.validate = "false"
               THEN [exec EXCEPT !.status = "failed", !.result = "failure",
                                 !.pc = "finally"]
               ELSE [exec EXCEPT !.pc = "execute"]
    /\ ExecFrame

\* lines 47-55: task.execute() returns or raises
ExecExecute ==
    /\ exec.pc = "execute"
    /\ \E ok \in BOOLEAN :
          exec' = IF ok
                  THEN [exec EXCEPT !.attempts = Append(@, "ok"),
                                    !.status = "success", !.result = "success",
                                    !.pc = "finally"]
                  ELSE [exec EXCEPT !.attempts = Append(@, "raise"),
                                    !.pc = "except"]
    /\ ExecFrame

\* lines 57-74: mark_retry, the back-off sleep and the recursive call, or
\* the failure
ExecExcept ==
    /\ exec.pc = "except"
    /\ exec' = IF can_retry(exec.retry_count, exec.max_retries)
               THEN [exec EXCEPT !.retry_count = @ + 1, !.status = "retry",
                                 !.depth = @ + 1, !.pc = "call"]
               ELSE [exec EXCEPT !.status = "failed", !.result = "failure",
                                 !.pc = "finally"]
    /\ ExecFrame

\* lines 76-77: the finally of the innermost call, then of each caller
ExecFinally ==
    /\ exec.pc = "finally"
    /\ exec' = [exec EXCEPT !.running = FALSE,
                            !.depth = IF @ > 0 THEN @ - 1 ELSE @,
                            !.pc = IF exec.depth > 0 THEN "finally" ELSE "returned"]
    /\ ExecFrame


\* The other components before anything was given to them.
InitAuxIdle ==
    /\ scan = NoScan
    /\ pytdx = NoPytdx
    /\ csv = NoCsv
    /\ seqfm = NoSeq
    /\ exec = NoExec

\* The K-line pipeline before anything was given to it.
InitPipeCore ==
    /\ raw = << >>
    /\ recon = NoRecon
    /\ calc = NoCalc
    /\ gate = NoGate

InitPipeIdle == InitPipeCore /\ InitAuxIdle

InitOrchClock ==
    /\ connected = [t \in Threads |-> "unset"]
    /\ pc = [t \in Threads |-> "idle"]
    /\ frame = [t \in Threads |-> NoFrame]
    /\ srcHist = [t \in Threads |-> NoSrcHist]
    /\ srcGlobal = [actor |-> 0, ops |-> 0]
    /\ clock \in [year : Years, month : Months]

InitSourcePart ==
    /\ connected = [t \in Threads |-> "unset"]
    /\ pc = [t \in Threads |-> "idle"]
    /\ frame = [t \in Threads |-> NoFrame]
    /\ srcHist = [t \in Threads |-> NoSrcHist]
    /\ srcGlobal = [actor |-> 0, ops |-> 0]
    /\ clock = [year |-> 2025, month |-> 1]

\* ThreadSafeBaostockSource.__init__ lines 35-43: the limiter the
\* configuration asks for, or a disabled one.
InitSourceLimiter ==
    /\ \/ limiter = ApiRateLimiterInit(MaxThreshold, TRUE)
       \/ limiter = ApiRateLimiterInit(50, FALSE)
    /\ lpc = [t \in Threads |-> "idle"]
    /\ should_sleep = [t \in Threads |-> FALSE]
    /\ wcall = [t \in Threads |-> NoCall]
    /\ hist = [calls |-> 0, episodes |-> 0, resets |-> 0, overlapped |-> FALSE]

InitSource == InitSourceLimiter /\ InitStatsPart /\ InitSourcePart /\ InitOrchPart
    /\ InitPipeIdle

NextSource ==
    \E t \in SrcThreads :
        \/ Enter(t)
        \/ Exit(t)
        \/ Disconnect(t)
        \/ GfdCall(t)
        \/ GfdBegin(t)
        \/ GfdQuery(t)
        \/ GsfCall(t)
        \/ GsfLoop(t)
        \/ GslCall(t)
        \/ GslQuery(t)
        \/ SrcReturn(t)
        \/ WaitCheck(t)
        \/ WaitAcquire(t)
        \/ WaitUpdate(t)
        \/ WaitRelease(t)
        \/ Sleep1Done(t)
        \/ BackoffDone(t)
        \/ Sleep2Done(t)

SpecSource == InitSource /\ [][NextSource]_vars

\* The limiter as its constructor defaults make it (calls_per_period = 50).
InitLimiterDefault ==
    /\ limiter = ApiRateLimiterInit(50, TRUE)
    /\ lpc = [t \in Threads |-> "idle"]
    /\ should_sleep = [t \in Threads |-> FALSE]
    /\ wcall = [t \in Threads |-> NoCall]
    /\ hist = [calls |-> 0, episodes |-> 0, resets |-> 0, overlapped |-> FALSE]

InitLimiter == InitLimiterPart /\ InitStatsPart /\ InitSourcePart /\ InitOrchPart
    /\ InitPipeIdle

NextLimiter ==
    \E t \in Threads :
        \/ CallWait(t)
        \/ WaitCheck(t)
        \/ WaitAcquire(t)
        \/ WaitUpdate(t)
        \/ WaitRelease(t)
        \/ Sleep1Done(t)
        \/ BackoffDone(t)
        \/ Sleep2Done(t)
        \/ WaitReturn(t)
        \/ Reset(t)

SpecLimiter == InitLimiter /\ [][NextLimiter]_vars


InitStats == InitLimiterDefault /\ InitStatsPart /\ InitSourcePart /\ InitOrchPart
    /\ InitPipeIdle

NextStats == AddResult

SpecStats == InitStats /\ [][NextStats]_vars

\* One run of execute_sync.
Init == InitSourceLimiter /\ InitStatsPart /\ InitOrchClock /\ InitOrchPart
    /\ InitPipeIdle

Next ==
    \/ Start
    \/ \E b \in 1..MaxStocks : BatchStart(b)
    \/ \E s \in 1..MaxStocks : Collect(s)
    \/ \E s \in 1..MaxStocks : FetchPeriod(s)
    \/ \E b \in 1..MaxStocks : BatchFlush(b)
    \/ \E b \in 1..MaxStocks : MainCollect(b)
    \/ Final

Spec == Init /\ [][Next]_vars

(***************************************************************************)
(* Initial states and specifications of the K-line pipeline                *)
(***************************************************************************)

InitOthersIdle ==
    /\ InitLimiterDefault
    /\ InitStatsPart
    /\ InitSourcePart
    /\ InitOrchPart

\* calculate_change_rate_with_details, called once with each pair of arguments.
InitRate ==
    /\ InitOthersIdle /\ InitAuxIdle
    /\ InitCalc /\ raw = << >> /\ recon = NoRecon /\ gate = NoGate

NextRate == Calculate

SpecRate == InitRate /\ [][NextRate]_vars

\* The bars of one security through the daily pipeline of SyncManager, or
\* through one of the post-processing routines of PytdxSource.
InitReconcile ==
    /\ InitOthersIdle /\ InitAuxIdle
    /\ InitRecon /\ calc = NoCalc /\ gate = NoGate

NextReconcile ==
    \/ ScanFile
    \/ Assemble
    \/ WriteCsv
    \/ PytdxDaily
    \/ PytdxMinute

SpecReconcile == InitReconcile /\ [][NextReconcile]_vars

\* The gate given one bar, under the default configuration.
InitGateBar ==
    /\ InitOthersIdle /\ InitAuxIdle
    /\ raw = << >> /\ recon = NoRecon /\ calc = NoCalc
    /\ \E bar \in GateBars : gate = DetectorInit(TRUE, <<bar>>)

NextGateBar == DetectBar

SpecGateBar == InitGateBar /\ [][NextGateBar]_vars

\* One detector, enabled or disabled by its configuration, used again and
\* again.
InitGate ==
    /\ InitOthersIdle /\ InitAuxIdle
    /\ raw = << >> /\ recon = NoRecon /\ calc = NoCalc
    /\ gate \in { DetectorInit(enabled, << >>) : enabled \in BOOLEAN }

NextGate ==
    \/ \E daily_data \in SeqsUpTo(BatchBars, MaxBatch) : DetectBatch(daily_data)
    \/ ClearAnomalies
    \/ \E severity \in {"None", "error", "warning"} : GetRecords(severity)

SpecGate == InitGate /\ [][NextGate]_vars

\* One .day or .lc5 file read by _scan_all_files.
InitDecode ==
    /\ InitOthersIdle /\ InitPipeCore
    /\ InitScan /\ pytdx = NoPytdx /\ csv = NoCsv /\ seqfm = NoSeq /\ exec = NoExec

NextDecode == ReadFile

SpecDecode == InitDecode /\ [][NextDecode]_vars


InitCsvRun ==
    /\ InitOthersIdle /\ InitPipeCore /\ InitCsv
    /\ scan = NoScan /\ pytdx = NoPytdx /\ seqfm = NoSeq /\ exec = NoExec
NextCsv == WriteCsvFile
SpecCsv == InitCsvRun /\ [][NextCsv]_vars

InitCsvConcurrent ==
    /\ InitOthersIdle /\ InitPipeCore /\ InitCsvWorkers
    /\ scan = NoScan /\ pytdx = NoPytdx /\ seqfm = NoSeq /\ exec = NoExec
NextCsvWorkers ==
    \E t \in CsvWriters :
        \/ WorkerCheck(t)
        \/ WorkerDelete(t)
        \/ WorkerExists(t)
        \/ WorkerToCsv(t)
        \/ WorkerMark(t)
SpecCsvWorkers == InitCsvConcurrent /\ [][NextCsvWorkers]_vars

InitPytdxRun ==
    /\ InitOthersIdle /\ InitPipeCore /\ InitPytdx
    /\ scan = NoScan /\ csv = NoCsv /\ seqfm = NoSeq /\ exec = NoExec
NextPytdx == GetDailyData \/ GetMinuteData
SpecPytdx == InitPytdxRun /\ [][NextPytdx]_vars

InitSeqRun ==
    /\ InitOthersIdle /\ InitPipeCore /\ InitSeq
    /\ scan = NoScan /\ pytdx = NoPytdx /\ csv = NoCsv /\ exec = NoExec
NextSeq == SeqStart \/ SeqProcessStock \/ SeqFinish
SpecSeq == InitSeqRun /\ [][NextSeq]_vars

InitExecRun ==
    /\ InitOthersIdle /\ InitPipeCore /\ InitExec
    /\ scan = NoScan /\ pytdx = NoPytdx /\ csv = NoCsv /\ seqfm = NoSeq
NextExec == ExecEnter \/ ExecValidate \/ ExecExecute \/ ExecExcept \/ ExecFinally
SpecExec == InitExecRun /\ [][NextExec]_vars

(***************************************************************************)
(* Properties of the rate limiter                                          *)
(***************************************************************************)

\* A run in which no two wait_if_needed calls overlapped and reset() was
\* never called, on an enabled limiter with a threshold N >= 1.
SequentialRun ==
    /\ limiter.enabled
    /\ ~limiter.unlimited
    /\ ~hist.overlapped
    /\ hist.resets = 0

\* C9 as stated: in a sequential run on a fresh enabled limiter with
\* threshold N, each of the first N calls returns without sleeping and call
\* N+1 performs exactly one sleep of sleep_duration.
C9_SleepOnCallNPlus1 ==
    \A t \in Threads :
        (SequentialRun /\ lpc[t] = "returned") =>
            /\ wcall[t].idx <= limiter.calls_per_period => wcall[t].sleeps = 0
            /\ wcall[t].idx = limiter.calls_per_period + 1 => wcall[t].sleeps = 1

\* C9 amended: in a sequential run on a fresh enabled limiter with threshold
\* N, each of the first N-1 calls ends without sleeping and call N enters
\* _sleep_with_retry exactly once: exactly one sleep of sleep_duration when
\* no sleep fails, and a second attempt only after a failed one.
C9_SleepOnCallN ==
    \A t \in Threads :
        (SequentialRun /\ lpc[t] \in {"returned", "raised"}) =>
            /\ wcall[t].idx < limiter.calls_per_period =>
                  wcall[t].sleeps = 0 /\ wcall[t].episodes = 0
            /\ wcall[t].idx = limiter.calls_per_period =>
                  /\ wcall[t].episodes = 1
                  /\ wcall[t].fails = 0 => wcall[t].sleeps = 1
                  /\ wcall[t].sleeps = 2 => wcall[t].fails >= 1

\* C9 witness: with N >= 2, call N of a sequential run has returned after
\* exactly one undisturbed sleep.
C9_Witness ==
    \E t \in Threads :
        /\ SequentialRun
        /\ limiter.calls_per_period >= 2
        /\ lpc[t] = "returned"
        /\ wcall[t].idx = limiter.calls_per_period
        /\ wcall[t].sleeps = 1
        /\ wcall[t].fails = 0

NoSleepUnderLock ==
    \A t \in Threads : lpc[t] \in SleepStates => limiter.lock # t

LockAvailableDuringSleep ==
    \A t1, t2 \in Threads :
        (lpc[t1] \in SleepStates /\ lpc[t2] = "acquire") =>
            \/ limiter.lock = 0
            \/ limiter.lock \in Threads /\ lpc[limiter.lock] \in {"update", "release"}

CounterUnderLock ==
    /\ (limiter'.call_count # limiter.call_count /\ hist'.resets = hist.resets) =>
          /\ limiter.lock \in Threads
          /\ lpc[limiter.lock] = "update"
          /\ limiter'.lock = limiter.lock
    /\ \A t \in Threads :
          should_sleep'[t] # should_sleep[t] => limiter.lock = t /\ limiter'.lock = t

\* C10: the limiter never holds its lock while sleeping: the counter
\* increment, the threshold check and the reset happen with the lock held,
\* every sleep happens with the lock released, so a thread waiting for the
\* lock while another sleeps is held up only by a thread inside the locked
\* block, never by the sleeper.
C10_LockNotHeldWhileSleeping ==
    /\ [](NoSleepUnderLock /\ LockAvailableDuringSleep)
    /\ [][CounterUnderLock]_vars

\* C10 witness: thread t2 entered wait_if_needed after t1 began its sleep,
\* went through the locked block and returned while t1 is still asleep.
C10_Witness ==
    \E t1, t2 \in Threads :
        /\ t1 # t2
        /\ lpc[t1] = "sleep1"
        /\ lpc[t2] = "returned"
        /\ wcall[t2].idx > wcall[t1].sleepAt
        /\ limiter.calls_per_period >= 2

(***************************************************************************)
(* Properties of the thread-local session source                           *)
(***************************************************************************)

DataQueries == {"query_profit_data", "query_stock_basic"}

\* A login is issued only while the thread's own flag is not "true"; a data
\* query only while it is "true".
OwnSessionDiscipline ==
    \A t \in Threads :
        LET l == srcHist[t].last
        IN /\ l.kind = "login" => l.conn # "true"
           /\ l.kind \in DataQueries => l.conn = "true"

\* A thread's flag changes only in a step of that thread.
SessionIsolation ==
    \A t \in Threads : connected'[t] # connected[t] => srcGlobal'.actor = t

\* C1: in every interleaving, a thread logs in only when its own
\* thread-local session is not connected (first use, or after its own
\* disconnect) and never while it is connected, each of its remote queries
\* is issued while its own session is connected, and its session flag is
\* changed by no other thread's login or disconnect.
C1_ThreadLocalSession ==
    /\ []OwnSessionDiscipline
    /\ [][SessionIsolation]_vars

\* C1 witness: thread t has just logged in again after its session was torn
\* down, while the session of another thread u stayed connected.
C1_Witness ==
    \E t, u \in SrcThreads :
        /\ t # u
        /\ srcHist[t].last.kind = "login"
        /\ srcHist[t].last.conn = "false"
        /\ connected[t] = "true"
        /\ connected[u] = "true"

\* C8 as stated: every remote call a worker thread issues through the
\* source (login and logout included) directly follows, on that thread, a
\* return of wait_if_needed on the shared limiter.
C8_EveryRemoteCallLimited ==
    \A t \in Threads :
        srcHist[t].last.kind # "none" => srcHist[t].last.limited

\* C8 amended: every remote data query (query_stock_basic,
\* query_profit_data) a worker thread issues directly follows, on that
\* thread, a return of wait_if_needed on the one shared limiter; bs.login
\* and bs.logout are issued without consulting the limiter.
C8_EveryDataQueryLimited ==
    \A t \in Threads :
        LET l == srcHist[t].last
        IN /\ l.kind \in DataQueries => l.limited
           /\ l.kind \in {"login", "logout"} => ~l.limited

\* C8 witness: a thread has issued a profit-data query right after its
\* wait_if_needed returned, while another thread sleeps in the limiter.
C8_Witness ==
    \E t, u \in SrcThreads :
        /\ t # u
        /\ srcHist[t].last.kind = "query_profit_data"
        /\ srcHist[t].last.limited
        /\ lpc[u] \in SleepStates

(***************************************************************************)
(* Properties of the concurrent orchestrator                               *)
(***************************************************************************)

FailedQueries == {"errcode", "raise"}

\* C2: whenever a remote query for a security raises or returns a non-zero
\* error code, the CollectionResult of that security is Error (never NoData
\* or Success) and no further period is queried for it.
C2_QueryFailureIsError ==
    fetched.stock # 0 =>
        \A i \in 1..Len(fetched.log) :
            fetched.log[i].out \in FailedQueries =>
                /\ fetched.status = "error"
                /\ i = Len(fetched.log)

\* The quarter before a (year, quarter) period.
PreviousQuarter(p) ==
    IF p.quarter > 1 THEN [year |-> p.year, quarter |-> p.quarter - 1]
                     ELSE [year |-> p.year - 1, quarter |-> 4]

CurrentPeriod == [year |-> clock.year, quarter |-> (clock.month + 2) \div 3]

\* C3: get_stock_fundamentals without year/quarter makes at most two period
\* queries, the first for the quarter before the current one, the second for
\* the quarter before that and made if and only if the first returned no
\* data; it stops at the first query that returns data and reports no data
\* only after both queries returned nothing.
C3_PrimaryThenOneFallback ==
    fetched.stock # 0 =>
        LET q == fetched.log
        IN /\ Len(q) <= 2
           /\ Len(q) >= 1 => q[1].period = PreviousQuarter(CurrentPeriod)
           /\ Len(q) = 2 =>
                 q[2].period = PreviousQuarter(PreviousQuarter(CurrentPeriod))
           /\ Len(q) = 2 <=> (Len(q) >= 1 /\ q[1].out = "empty")
           /\ \A i \in 1..Len(q) : q[i].out = "data" => i = Len(q)
           /\ fetched.status = "no_data" =>
                 /\ Len(q) = 2
                 /\ q[1].out = "empty"
                 /\ q[2].out = "empty"

Classified(status) == { s \in DOMAIN task : task[s].status = status }

\* C4: when execute_sync has finished over n securities, every security has
\* produced exactly one CollectionResult, recorded once in the statistics:
\* each of the three counts is the number of securities in that state and
\* success + no_data + error = n = total_stocks.
C4_EveryResultRecordedOnce ==
    (orch.pc = "done" /\ ~orch.error) =>
        /\ \A s \in DOMAIN task : task[s].results = 1
        /\ stats.successful = Cardinality(Classified("success"))
        /\ stats.no_data = Cardinality(Classified("no_data"))
        /\ stats.error_count = Cardinality(Classified("error"))
        /\ stats.successful + stats.no_data + stats.error_count = orch.n
        /\ stats.total_stocks = orch.n

\* C6: in a non-dry run the successes of a batch are written to both sinks
\* before the batch task returns, and the orchestrator holds no record of a
\* batch it has already taken back: what it holds is bounded by the batches
\* in progress.
C6_FlushedBatchesNotRetained ==
    ~orch.dry_run =>
        \A b \in DOMAIN batches :
            /\ (batches[b].state \in {"returned", "collected"}
                   /\ batches[b].batch_data # {}) => batches[b].flush # "skipped"
            /\ batches[b].state = "collected" =>
                   batches[b].batch_data \cap orch.fundamentals_data = {}

\* C7: when the sink write of a batch raises, the records of that batch are
\* written to no sink later in the run, every other batch is still fetched
\* and taken back, and execute_sync returns its statistics without raising.
C7_SinkFailureContained ==
    \A b \in DOMAIN batches :
        batches[b].flush \in {"csv_failed", "db_failed"} =>
            /\ batches[b].batch_data \cap (sink.finalCsv \cup sink.finalDb) = {}
            /\ orch.pc = "done" =>
                  /\ ~orch.error
                  /\ \A c \in DOMAIN batches : batches[c].state = "collected"

(***************************************************************************)
(* Properties of the collection statistics                                 *)
(***************************************************************************)

CountsAddUp ==
    LET cs == stats.collection_stats
    IN cs.success_count + cs.no_data_count + cs.error_count = cs.total

RatesOrdered ==
    LET cs == stats.collection_stats
    IN /\ cs.no_data_count > 0 => RateLess(real_success_rate(cs), completion_rate(cs))
       /\ cs.no_data_count = 0 => RateEq(real_success_rate(cs), completion_rate(cs))

NoErrorAddedNoErrorCounted ==
    ~statsHist.errAdded => stats.collection_stats.error_count = 0

NoDataTouchesOnlyNoData ==
    LET cs == stats.collection_stats
        cs2 == stats'.collection_stats
    IN (cs2 # cs /\ statsHist'.last.status = "no_data") =>
          /\ cs2.total = cs.total + 1
          /\ cs2.no_data_count = cs.no_data_count + 1
          /\ cs2.success_count = cs.success_count
          /\ cs2.error_count = cs.error_count

\* C5: after any sequence of add_result calls the three counts sum to total;
\* adding a NoData result raises total and no_data_count by one and leaves
\* success_count and error_count as they were (error_count is 0 while no
\* Error was added); real_success_rate < completion_rate whenever
\* no_data_count > 0 and the two rates are equal when no_data_count = 0.
C5_TriStateCounts ==
    /\ [](CountsAddUp /\ RatesOrdered /\ NoErrorAddedNoErrorCounted)
    /\ [][NoDataTouchesOnlyNoData]_vars

\* C5 witness: a NoData result was just added after a Success, no Error so far.
C5_Witness ==
    /\ statsHist.last.status = "no_data"
    /\ ~statsHist.errAdded
    /\ stats.collection_stats.no_data_count >= 1
    /\ stats.collection_stats.success_count >= 1

(***************************************************************************)
(* Sleep failures inside the limiter                                       *)
(***************************************************************************)

\* C11: wait_if_needed never aborts its caller because of a sleep failure:
\* whichever of its sleeps fail (the first sleep, the back-off sleep, the
\* retried sleep), the main sleep is attempted at most twice and the call
\* returns normally without raising.
C11_SleepFailureNeverRaises ==
    \A t \in Threads :
        /\ lpc[t] # "raised"
        /\ wcall[t].sleeps <= 2


(***************************************************************************)
(* Claims about the reconciler                                             *)
(***************************************************************************)

PostProcessed == recon.routine \in {"scan", "pytdx_daily", "pytdx_minute"}

\* C12: for every non-empty collection of bars of one security, one bar
\* included, the first bar of the post-processed list (ascending in
\* trade_date, or in trade_date and trade_time) has preclose equal to its
\* own open.
C12_FirstBarPrecloseIsOpen ==
    (PostProcessed /\ recon.data # << >>) =>
        recon.data[1].preclose = recon.data[1].open


DailyOutput == recon.routine \in {"assemble", "csv"}

\* C13: in the output of the daily pipeline (sorted ascending, one bar for
\* each trade_date) every bar but the first has preclose equal to the close
\* of the bar just before it in that output, whatever the input, duplicate
\* keys included.
C13_PrecloseIsPreviousOutputClose ==
    DailyOutput =>
        \A i \in 2..Len(recon.data) :
            recon.data[i].preclose = recon.data[i - 1].close


\* round((close - preclose) / preclose * 100, 4), clamped to +-9999.9999.
ClampedRate(close, preclose) ==
    LET r == RoundHalfEven((close - preclose) * 1000000, preclose)
    IN IF r >= 100000000 THEN 99999999
       ELSE IF r <= 0 - 100000000 THEN 0 - 99999999
       ELSE r

IsNull(x) == x = None \/ x = NaN

\* C14: every bar of the reconciled output whose preclose is a non-zero
\* number has change_rate = round((close - preclose) / preclose * 100, 4),
\* clamped; change_rate is null only when preclose is zero or unset.
C14_ChangeRateWheneverPrecloseNonZero ==
    (PostProcessed \/ DailyOutput) =>
        \A i \in 1..Len(recon.data) :
            LET bar == recon.data[i]
            IN (~IsNull(bar.preclose) /\ bar.preclose # 0) =>
                   bar.change_rate = ClampedRate(bar.close, bar.preclose)


(***************************************************************************)
(* Claims about calculate_change_rate_with_details                         *)
(***************************************************************************)

\* C15: for every close and every non-zero preclose the function returns a
\* change_rate of magnitude at most 9999.9999; is_truncated holds exactly
\* when the rounded raw value has magnitude at least 10000, and then
\* change_rate is 9999.9999 with the sign of the raw value while
\* raw_change_rate is the unclamped rounded value; otherwise change_rate is
\* the rounded raw value.
C15_ClampedWithinStorage ==
    (calc.called /\ calc.close # None /\ calc.preclose # None /\ calc.preclose # 0) =>
        LET r == RoundHalfEven((calc.close - calc.preclose) * 1000000, calc.preclose)
            d == calc.result
        IN /\ ~d.is_none
           /\ Abs(d.change_rate) <= 99999999
           /\ d.is_truncated <=> (Abs(r) >= 100000000)
           /\ d.raw_change_rate = r
           /\ d.is_truncated =>
                  d.change_rate = (IF r > 0 THEN 99999999 ELSE 0 - 99999999)
           /\ ~d.is_truncated => d.change_rate = r


\* The positions of the raw records with trade_date d, and the last of them.
Supplied(d) == { j \in 1..Len(raw) : raw[j].trade_date = d }

LastSupplied(d) == CHOOSE j \in Supplied(d) : \A k \in Supplied(d) : k <= j

SameValues(bar, record) ==
    /\ bar.trade_date = record.trade_date
    /\ bar.trade_time = record.trade_time
    /\ bar.open = record.open
    /\ bar.close = record.close

\* C16: when several raw records share a key, the daily output holds exactly
\* one bar for that key, and that bar has the values of the record supplied
\* last with that key.
C16_LastSuppliedDuplicateWins ==
    DailyOutput =>
        \A d \in 1..MaxDate :
            Cardinality(Supplied(d)) >= 2 =>
                /\ Cardinality({ i \in 1..Len(recon.data) :
                                    recon.data[i].trade_date = d }) = 1
                /\ \A i \in 1..Len(recon.data) :
                       recon.data[i].trade_date = d =>
                           SameValues(recon.data[i], raw[LastSupplied(d)])

\* Two records of one date that differ in close were supplied, the later one
\* out of date order, and the output has been assembled.
C16_Witness ==
    /\ recon.routine = "assemble"
    /\ Len(raw) = 3
    /\ raw[1].trade_date = 2 /\ raw[2].trade_date = 1 /\ raw[3].trade_date = 2
    /\ raw[1].close # raw[3].close
    /\ Len(recon.data) = 2
    /\ recon.data[2].close = raw[3].close


\* The orders a list of n records can be supplied in.
Orders(n) == { f \in [1..n -> 1..n] : \A i, j \in 1..n : f[i] = f[j] => i = j }

Reordered(s, f) == [ i \in 1..Len(s) |-> s[f[i]] ]

\* What a routine of the reconciler returns for the records s.
OutputOf(routine, s) ==
    CASE routine = "scan" -> SyncManager_post_process_daily_data(s)
      [] routine = "assemble" ->
             LET scanned == SyncManager_post_process_daily_data(s)
             IN IF scanned = << >> THEN scanned
                ELSE SyncManager_assemble_daily_data(scanned)
      [] routine = "pytdx_daily" -> PytdxSource_post_process_daily_data(s)
      [] routine = "pytdx_minute" -> PytdxSource_post_process_minute_data(s)

\* The preclose and change_rate a list of bars gives to each key.
Assignments(data, minute) ==
    { << data[i].trade_date, IF minute THEN data[i].trade_time ELSE 0,
         data[i].preclose, data[i].change_rate >> : i \in 1..Len(data) }

OrderIndependent(routine, minute) ==
    recon.routine = routine =>
        \A f \in Orders(Len(raw)) :
            Assignments(OutputOf(routine, Reordered(raw, f)), minute)
                = Assignments(recon.data, minute)

DistinctKeys(minute) ==
    \A i, j \in 1..Len(raw) :
        (/\ raw[i].trade_date = raw[j].trade_date
         /\ minute => raw[i].trade_time = raw[j].trade_time) => i = j

\* C17 as stated: the same records supplied in any other order give every
\* key the same preclose and the same change_rate.
C17_AnyOrderSameAssignments ==
    /\ OrderIndependent("assemble", FALSE)
    /\ OrderIndependent("pytdx_daily", FALSE)

\* C17, amended: the same records, no two of them sharing a key, supplied in
\* any other order give every key the same preclose and the same
\* change_rate, in the daily pipeline and in both PytdxSource routines.
C17_DistinctKeysAnyOrderSameAssignments ==
    /\ DistinctKeys(FALSE) =>
           /\ OrderIndependent("scan", FALSE)
           /\ OrderIndependent("assemble", FALSE)
           /\ OrderIndependent("pytdx_daily", FALSE)
    /\ DistinctKeys(TRUE) => OrderIndependent("pytdx_minute", TRUE)

\* Three records of three dates were supplied in descending order and the
\* daily output gives the last date a computed change_rate.
C17_Witness ==
    /\ recon.routine = "assemble"
    /\ Len(raw) = 3
    /\ raw[1].trade_date = 3 /\ raw[2].trade_date = 2 /\ raw[3].trade_date = 1
    /\ Len(recon.data) = 3
    /\ ~IsNull(recon.data[3].change_rate)
    /\ recon.data[3].preclose = raw[2].close


(***************************************************************************)
(* Claims about the anomaly gate                                           *)
(***************************************************************************)

\* The bar the gate was given, once detect_anomalies_batch has returned.
Detected == gate.op = "detect" /\ Len(gate.batch) = 1

GivenBar == gate.batch[1]

\* A bar that names its security and its date and has four numeric prices.
WellFormed(bar) ==
    /\ bar.ts_code # "" /\ bar.trade_date # None
    /\ bar.open # None /\ bar.high # None /\ bar.low # None /\ bar.close # None

HasError(anomaly_type) ==
    \E i \in 1..Len(gate.result) :
        /\ gate.result[i].severity = "error"
        /\ gate.result[i].anomaly_type = anomaly_type

\* C18: for every bar given to the gate, zero and negative prices included,
\* high < low yields an Error record for the high/low ordering, an open
\* outside [low, high] an Error record for the open, and a close outside
\* [low, high] an Error record for the close.
C18_OrderingViolationsReported ==
    (Detected /\ WellFormed(GivenBar)) =>
        LET bar == GivenBar
        IN /\ bar.high < bar.low => HasError("price_logic_error")
           /\ ~(bar.low <= bar.open /\ bar.open <= bar.high) =>
                  HasError("open_price_logic_error")
           /\ ~(bar.low <= bar.close /\ bar.close <= bar.high) =>
                  HasError("close_price_logic_error")


\* The rounded raw rate of a bar, before any clamp.
RawRate(bar) == RoundHalfEven((bar.close - bar.preclose) * 1000000, bar.preclose)

HasRate(bar) ==
    NumTruthy(bar.close) /\ NumTruthy(bar.preclose) /\ bar.preclose # NaN

\* A bar as the reconciler leaves it: identified, with numeric prices, and
\* with a change_rate that is unset or the one computed from its close and
\* preclose.
FromReconciler(bar) ==
    /\ WellFormed(bar)
    /\ \/ IsNull(bar.change_rate)
       \/ HasRate(bar) /\ bar.change_rate = ClampedRate(bar.close, bar.preclose)

\* The reconciler clamped the bar's change_rate.
Clamped(bar) ==
    /\ HasRate(bar)
    /\ Abs(RawRate(bar)) >= 100000000
    /\ bar.change_rate = ClampedRate(bar.close, bar.preclose)

Overflows ==
    { i \in 1..Len(gate.result) :
        gate.result[i].anomaly_type = "change_rate_precision_overflow" }

\* C19: for a bar whose change_rate the reconciler clamped, the gate returns
\* a Warning precision-overflow record whose actual_value holds the clamped
\* value, the raw unclamped value and the computation (close, preclose, raw
\* value); for a bar that was not clamped it returns no such record.
C19_ClampedBarsReported ==
    (Detected /\ FromReconciler(GivenBar)) =>
        LET bar == GivenBar
        IN IF Clamped(bar)
           THEN /\ Cardinality(Overflows) = 1
                /\ \A i \in Overflows :
                       /\ gate.result[i].severity = "warning"
                       /\ gate.result[i].actual_value =
                              << bar.change_rate, RawRate(bar), bar.close,
                                 bar.preclose, RawRate(bar), bar.close, bar.preclose >>
           ELSE Overflows = {}

\* The gate was given a bar whose change_rate was clamped to -9999.9999 and
\* has reported it.
C19_Witness ==
    /\ Detected
    /\ FromReconciler(GivenBar)
    /\ Clamped(GivenBar)
    /\ GivenBar.change_rate = 0 - 99999999
    /\ Overflows # {}


\* How often a record occurs in a list.
Count(records, r) == Cardinality({ i \in 1..Len(records) : records[i] = r })

SameMultiset(a, b) ==
    /\ Len(a) = Len(b)
    /\ \A i \in 1..Len(a) : Count(a, a[i]) = Count(b, a[i])

\* What a detector newly made with the same configuration returns.
FreshResult(daily_data) ==
    detect_anomalies_batch(DetectorInit(gate.enabled, << >>), daily_data).result

RECURSIVE OneByOne(_, _)
OneByOne(daily_data, i) ==
    IF i > Len(daily_data) THEN << >>
    ELSE FreshResult(<<daily_data[i]>>) \o OneByOne(daily_data, i + 1)

\* C20: the multiset of records detect_anomalies_batch returns for a batch
\* is the union of the records each of its bars yields alone, is the same
\* for every permutation of the batch, and is the same whatever
\* detect_anomalies_batch and clear_anomalies calls the detector served
\* before.
C20_StatelessOrderIndependent ==
    gate.op = "detect" =>
        /\ SameMultiset(gate.result, OneByOne(gate.batch, 1))
        /\ \A f \in Orders(Len(gate.batch)) :
               SameMultiset(gate.result, FreshResult(Reordered(gate.batch, f)))
        /\ gate.result = FreshResult(gate.batch)

\* A detector that still held records of an earlier batch was given a batch
\* of two different bars, each of which yields records.
C20_Witness ==
    /\ gate.op = "detect"
    /\ gate.enabled
    /\ gate.prior > 0
    /\ Len(gate.batch) = 2
    /\ gate.batch[1] # gate.batch[2]
    /\ FreshResult(<<gate.batch[1]>>) # << >>
    /\ FreshResult(<<gate.batch[2]>>) # << >>
    /\ Len(gate.result) > 0


(***************************************************************************)
(* Claims about the decoders and the file scan                             *)
(***************************************************************************)

\* A record of full length whose stamp is a calendar date of 1990..2100.
WellFormedRecord(record) ==
    /\ ~record.short
    /\ ValidDate(record.stamp)
    /\ 1990 <= record.stamp \div 10000 /\ record.stamp \div 10000 <= 2100

Emitted(i) == \E k \in 1..Len(scan.all_data) : scan.all_data[k] = i

\* C21: whatever records a file holds (a short last buffer, a packed date
\* that is no date), no decoder call raises out of the scan, and every
\* well-formed record of the file, before and after a malformed one, is
\* emitted.
C21_MalformedRecordsSkipped ==
    scan.pc = "closed" =>
        /\ ~scan.failed
        /\ \A i \in 1..Len(scan.file) : WellFormedRecord(scan.file[i]) => Emitted(i)


\* ---------------------------------------------------------------------
\* CsvWriter claims
\* ---------------------------------------------------------------------
RECURSIVE RowsWritten(_, _)
\* the rows the run has written to a path so far, in write order
RowsWritten(log, filepath) ==
    IF log = << >>
    THEN << >>
    ELSE LET rest == RowsWritten(SubSeq(log, 1, Len(log) - 1), filepath)
             last == log[Len(log)]
         IN  IF last.filepath = filepath THEN rest \o last.data ELSE rest

WritesTo(filepath) ==
    { i \in 1..Len(csv.log) : csv.log[i].filepath = filepath /\ csv.log[i].data # << >> }

WorkersDone == \A t \in CsvWriters : csv.w[t].pc = "done"

\* C24: when the batch workers have all finished writing the same file,
\* the file holds the rows of every worker's batch.
C24_ConcurrentWritesKeepBothBatches ==
    WorkersDone =>
        \A t \in CsvWriters :
            \A i \in 1..Len(csv.w[t].data) :
                \E j \in 1..Len(csv.disk[csv.w[t].filepath].rows) :
                    csv.disk[csv.w[t].filepath].rows[j] = csv.w[t].data[i]


Limiting == limiter.enabled /\ ~limiter.unlimited /\ hist.resets = 0

NoCallInProgress == \A t \in Threads : ~InCall(t)

\* C23: for an enabled limiter with threshold N >= 1 and no reset, under
\* any interleaving of wait_if_needed calls from the threads, call_count is
\* within 0..N-1 whenever the lock is free, and once the K calls made so far
\* are over exactly floor(K / N) sleeps have been started.
C23_CounterBoundedAndSleepsPerPeriod ==
    Limiting =>
        /\ limiter.lock = 0 =>
              limiter.call_count \in 0..(limiter.calls_per_period - 1)
        /\ NoCallInProgress =>
              hist.episodes = hist.calls \div limiter.calls_per_period

\* C23 witness: four calls, some of them overlapping, on a limiter with
\* threshold 2 are over and two sleeps were started.
C23_Witness ==
    /\ Limiting
    /\ NoCallInProgress
    /\ limiter.calls_per_period = 2
    /\ hist.calls = 4
    /\ hist.overlapped
    /\ hist.episodes = 2
    /\ limiter.lock = 0
    /\ limiter.call_count = 0


\* the records the batches fetched successfully
FetchedRecords == UNION { batches[b].batch_data : b \in DOMAIN batches }

\* no write of a batch and no part of the final write has raised
NoSinkFailure ==
    /\ \A b \in DOMAIN batches : batches[b].flush \in {"ok", "skipped"}
    /\ orch.fundamentals_data # {} =>
          /\ sink.finalCsv = orch.fundamentals_data
          /\ sink.finalDb = orch.fundamentals_data

TimesWritten(s, byBatch, byFinal) ==
    (IF s \in byBatch THEN 1 ELSE 0) + (IF s \in byFinal THEN 1 ELSE 0)

\* C25: when a non-dry run of the concurrent orchestrator in which no sink
\* write failed is over, every successfully fetched record has been written
\* to the CSV sink exactly once and passed to the database upsert exactly
\* once.
C25_EachRecordPersistedOnce ==
    (orch.pc = "done" /\ ~orch.error /\ ~orch.dry_run /\ NoSinkFailure) =>
        \A s \in FetchedRecords :
            /\ TimesWritten(s, sink.csv, sink.finalCsv) = 1
            /\ TimesWritten(s, sink.db, sink.finalDb) = 1


\* the closes of the bars of one security in its own file
ClosesOf(market) ==
    { pytdx.files[market][i].close : i \in 1..Len(pytdx.files[market]) }

\* C26: the preclose given to a bar is the close of a bar of the same
\* security_id (or the bar's own open), never a value of a security of
\* another market that shares the 6-digit code.
C26_PrecloseFromSameSecurity ==
    pytdx.pc \in {"daily", "minute"} =>
        \A i \in 1..Len(pytdx.data) :
            LET bar == pytdx.data[i]
            IN  \/ bar.preclose = None
                \/ bar.preclose = bar.open
                \/ bar.preclose \in ClosesOf(bar.ts_code)


\* C27: when the sequential execute_sync is over, every stock of the list
\* has contributed exactly one result, collection_stats.total is the number
\* of stocks, successful, no_data and error_count are the three counts of
\* collection_stats and add up to total_stocks, also when the write of a
\* batch has raised.
C27_SequentialStatisticsAddUp ==
    (seqfm.pc = "done" /\ seqfm.n > 0) =>
        /\ \A s \in 1..seqfm.n : seqfm.results[s] = 1
        /\ seqfm.collection_stats.total = seqfm.n
        /\ seqfm.stats.successful = seqfm.collection_stats.success_count
        /\ seqfm.stats.no_data = seqfm.collection_stats.no_data_count
        /\ seqfm.stats.error_count = seqfm.collection_stats.error_count
        /\ seqfm.stats.successful + seqfm.stats.no_data + seqfm.stats.error_count
              = seqfm.stats.total_stocks


\* C28: for a fresh ThreadSafeStatistics, after any sequence of add_result
\* calls with results of any status and any execution_time (0 and None
\* included), successful, no_data and error_count equal the three counts of
\* collection_stats and add up to total_stocks, so get_progress_info
\* reports current = total.
C28_CountersFollowCollectionStats ==
    /\ stats.successful = stats.collection_stats.success_count
    /\ stats.no_data = stats.collection_stats.no_data_count
    /\ stats.error_count = stats.collection_stats.error_count
    /\ stats.successful + stats.no_data + stats.error_count = stats.total_stocks
    /\ get_progress_info(stats)[1] = get_progress_info(stats)[2]


\* The four prices of the bar are within the accepted range and ordered:
\* low <= open <= high and low <= close <= high.
ValidPrices(bar) ==
    /\ \A p \in {bar.open, bar.high, bar.low, bar.close} :
          p # None /\ p >= PriceMin /\ p <= PriceMax
    /\ bar.low <= bar.open /\ bar.open <= bar.high
    /\ bar.low <= bar.close /\ bar.close <= bar.high

\* Nothing but the change_rate of the bar is out of the ordinary: valid
\* prices, a positive preclose, and no record of the gate for another field.
OtherwiseValid(bar) ==
    /\ ValidPrices(bar)
    /\ bar.preclose > 0
    /\ \A i \in 1..Len(gate.result) : gate.result[i].field_name = "change_rate"

\* C29: for a bar with otherwise valid fields whose change_rate the
\* reconciler clamped, the gate returns no Error-severity record for the
\* change_rate field.
C29_ClampedBarNoChangeRateError ==
    (Detected /\ FromReconciler(GivenBar) /\ Clamped(GivenBar) /\ OtherwiseValid(GivenBar)) =>
        \A i \in 1..Len(gate.result) :
            gate.result[i].field_name = "change_rate" => gate.result[i].severity # "error"


Executions == Len(exec.attempts)

\* C30: execute_task calls task.execute at most max_retries + 1 times and
\* stops at the first attempt that does not raise, returning success; when
\* it returns, the status is SUCCESS or FAILED, retry_count <= max_retries
\* and the task is not in _running_tasks; a task whose validate() returns
\* false ends FAILED without execute being called and without a retry.
C30_BoundedRetriesAndFinalStatus ==
    /\ Executions <= exec.max_retries + 1
    /\ \A k \in 1..(Executions - 1) : exec.attempts[k] = "raise"
    /\ exec.pc = "returned" =>
          /\ exec.status \in {"success", "failed"}
          /\ exec.status = "success" <=> exec.result = "success"
          /\ exec.result = "success" <=>
                (Executions > 0 /\ exec.attempts[Executions] = "ok")
          /\ exec.retry_count <= exec.max_retries
          /\ ~exec.running
          /\ exec.validate = "false" =>
                /\ exec.status = "failed"
                /\ Executions = 0
                /\ exec.retry_count = 0

\* C30 witness: with max_retries = 2, execute raised twice and the third
\* attempt returned; execute_task has returned success.
C30_Witness ==
    /\ exec.pc = "returned"
    /\ exec.max_retries = 2
    /\ exec.attempts = <<"raise", "raise", "ok">>
    /\ exec.retry_count = 2
    /\ exec.status = "success"
    /\ ~exec.running

=============================================================================
